---- MODULE Spec2Model ----
(***************************************************************************)
(* A model of the jakselv2 interpreter pipeline: Scanner (source text to  *)
(* tokens), Parser (tokens to statements, with panic-mode recovery),       *)
(* Environment (chained scopes) and Interpreter (tree walking), driven by  *)
(* Jaksel.run.  Stage code is modelled by operators computed the way the   *)
(* TypeScript computes them; each specification below drives one stage.    *)
(***************************************************************************)
EXTENDS Integers, Sequences, FiniteSets, TLC

VARIABLES
    pc,         \* which loop of which stage the program is in
    source,     \* Scanner.source, a sequence of one-character strings
    scanner,    \* the Scanner object's fields
    chain,      \* the Environment chain, outermost first (enclosing links)
    call,       \* the last Environment method call and its outcome
    parser,     \* the Parser object's fields and the local `statements`
    jaksel,     \* the Jaksel instance, its reporter and the running interpreter
    input       \* what the source was made from, where a specification records it

vars == <<pc, source, scanner, chain, call, parser, jaksel, input>>

(***************************************************************************)
(* Bounds of the model.                                                    *)
(***************************************************************************)
MaxSrcLen == 3
MaxDepth == 2
MaxStmts == 3
MaxElseIfs == 2
MaxTokens == 3
MaxPasses == 6
MaxRuns == 2
MaxOps == 2

(***************************************************************************)
(* Runtime values (token.ts Literal): a tagged record with uniform fields. *)
(* Numbers are exact rationals n/d; strings are character sequences.       *)
(***************************************************************************)
Nil == [k |-> "nil", n |-> 0, d |-> 1, s |-> <<>>]
Bool(b) == [k |-> "boolean", n |-> IF b THEN 1 ELSE 0, d |-> 1, s |-> <<>>]
Str(chars) == [k |-> "string", n |-> 0, d |-> 1, s |-> chars]

RECURSIVE Gcd(_, _)
Gcd(a, b) == IF b = 0 THEN a ELSE Gcd(b, a % b)

Abs(x) == IF x < 0 THEN -x ELSE x

Num(n, d) ==
    LET g == Gcd(Abs(n), Abs(d))
        sgn == IF d < 0 THEN -1 ELSE 1
    IN [k |-> "number", n |-> sgn * (n \div g), d |-> sgn * (d \div g), s |-> <<>>]

IntVal(n) == Num(n, 1)

(***************************************************************************)
(* The error reporter (ConsoleErrorReporter): two flags and what was       *)
(* written to console.error.                                               *)
(***************************************************************************)
NewReporter == [hadError |-> FALSE, hadRuntimeError |-> FALSE, errors |-> <<>>]

\* ConsoleErrorReporter.report
Report(rep, line, hasColumn, column, where, message) ==
    [rep EXCEPT !.hadError = TRUE,
                !.errors = Append(@, [line |-> line, hasColumn |-> hasColumn,
                                      column |-> column, where |-> where,
                                      message |-> message])]

\* ConsoleErrorReporter.error(line, column, message)
ErrorAt(rep, line, column, message) == Report(rep, line, TRUE, column, <<>>, message)

\* ConsoleErrorReporter.error(line, message)
ErrorLine(rep, line, message) == Report(rep, line, FALSE, 0, <<>>, message)

\* ConsoleErrorReporter.error(token, message)
ErrorToken(rep, token, message) ==
    Report(rep, token.line, TRUE, token.column, token.lexeme, message)

(***************************************************************************)
(* Tokens.                                                                 *)
(***************************************************************************)
Token(type, lexeme, literal, line, column) ==
    [type |-> type, lexeme |-> lexeme, literal |-> literal,
     line |-> line, column |-> column]

Digits == {"0", "1", "2", "3", "4", "5", "6", "7", "8", "9"}

Letters ==
    {"a", "b", "c", "d", "e", "f", "g", "h", "i", "j", "k", "l", "m",
     "n", "o", "p", "q", "r", "s", "t", "u", "v", "w", "x", "y", "z",
     "A", "B", "C", "D", "E", "F", "G", "H", "I", "J", "K", "L", "M",
     "N", "O", "P", "Q", "R", "S", "T", "U", "V", "W", "X", "Y", "Z"}

\* Scanner.isDigit
IsDigit(c) == c \in Digits

\* Scanner.isAlpha
IsAlpha(c) == c \in Letters \/ c = "_"

\* Scanner.isAlphaNumeric
IsAlphaNumeric(c) == IsAlpha(c) \/ IsDigit(c)

\* The reserved words of scanner.ts
Keywords ==
    << <<<<"r", "i", "l">>, "TRUE">>,
       <<<<"i", "m", "p", "o", "s", "s", "i", "b", "l", "e">>, "FALSE">>,
       <<<<"h", "a", "m", "p", "a">>, "NIL">>,
       <<<<"f", "o", "m", "o">>, "FOMO">>,
       <<<<"e", "n", "d", "u", "p">>, "ENDUP">>,
       <<<<"t", "h", "a", "t", "s">>, "THATS">>,
       <<<<"i", "t">>, "IT">>,
       <<<<"s", "i", "h">>, "SIH">>,
       <<<<"s", "p", "i", "l", "l">>, "SPILL">>,
       <<<<"l", "i", "t", "e", "r", "a", "l", "l", "y">>, "LITERALLY">>,
       <<<<"s", "e", "r", "i", "o", "u", "s", "l", "y">>, "SERIOUSLY">>,
       <<<<"w", "h", "i", "c", "h", "i", "s">>, "WHICHIS">>,
       <<<<"i", "t", "u">>, "ITU">>,
       <<<<"s", "o">>, "SO">>,
       <<<<"a", "b", "o", "u", "t">>, "ABOUT">>,
       <<<<"o", "v", "e", "r", "t", "h", "i", "n", "k", "i", "n", "g">>, "OVERTHINKING">>,
       <<<<"c", "a", "l", "l">>, "CALL">> >>

\* Keywords.get(text), a mutation: the type of a reserved word that text
\* begins with
KeywordPrefixType(text) ==
    LET hits == {i \in 1..Len(Keywords) :
                    /\ Len(Keywords[i][1]) <= Len(text)
                    /\ Keywords[i][1] = SubSeq(text, 1, Len(Keywords[i][1]))}
    IN IF hits = {} THEN "IDENTIFIER" ELSE Keywords[CHOOSE i \in hits : TRUE][2]

\* Keywords.get(text), with IDENTIFIER for undefined
KeywordType(text) ==
    LET hits == {i \in 1..Len(Keywords) : Keywords[i][1] = text}
    IN IF hits = {} THEN "IDENTIFIER" ELSE Keywords[CHOOSE i \in hits : TRUE][2]

DigitValue(c) ==
    CASE c = "0" -> 0 [] c = "1" -> 1 [] c = "2" -> 2 [] c = "3" -> 3
      [] c = "4" -> 4 [] c = "5" -> 5 [] c = "6" -> 6 [] c = "7" -> 7
      [] c = "8" -> 8 [] c = "9" -> 9

RECURSIVE Pow10(_)
Pow10(m) == IF m = 0 THEN 1 ELSE 10 * Pow10(m - 1)

RECURSIVE DigitsValue(_)
DigitsValue(ds) ==
    IF ds = <<>> THEN 0
    ELSE 10 * DigitsValue(SubSeq(ds, 1, Len(ds) - 1)) + DigitValue(ds[Len(ds)])

\* parseFloat on a lexeme of the form digits or digits.digits
ParseFloat(text) ==
    LET dots == {i \in 1..Len(text) : text[i] = "."}
    IN IF dots = {} THEN IntVal(DigitsValue(text))
       ELSE LET p == CHOOSE i \in dots : TRUE
                whole == SubSeq(text, 1, p - 1)
                frac == SubSeq(text, p + 1, Len(text))
            IN Num(DigitsValue(whole) * Pow10(Len(frac)) + DigitsValue(frac),
                   Pow10(Len(frac)))

(***************************************************************************)
(* Scanner (scanner.ts).  Positions are the 0-based JavaScript indices;    *)
(* the character at index i is source[i + 1].                              *)
(***************************************************************************)
NewScanner(rep) ==
    [start |-> 0, current |-> 0, line |-> 1, column |-> 1, tokens |-> <<>>,
     errorReporter |-> rep]

\* String.charAt: the empty string outside the text
CharAt(src, i) == IF i >= 0 /\ i < Len(src) THEN src[i + 1] ELSE ""

\* String.substring(from, to)
Substring(src, from, to) == SubSeq(src, from + 1, to)

IsAtEndOff(src, s) == s.current > Len(src)

\* Scanner.isAtEnd
IsAtEnd(src, s) == s.current >= Len(src)

\* Scanner.peek ("NUL" stands for the character '\0')
Peek(src, s) == IF IsAtEnd(src, s) THEN "NUL" ELSE CharAt(src, s.current)

\* Scanner.peekNext
PeekNext(src, s) ==
    IF s.current + 1 >= Len(src) THEN "NUL" ELSE CharAt(src, s.current + 1)

\* Scanner.advance: the state after the call (the character returned is
\* CharAt(src, s.current) of the state before)
Advance(s) == [s EXCEPT !.column = @ + 1, !.current = @ + 1]

\* Scanner.match, a mutation: nothing matches
MatchNothing(src, s, expected) == s

\* Scanner.match: the state after the call; it matched iff current moved
Match(src, s, expected) ==
    IF IsAtEnd(src, s) THEN s
    ELSE IF CharAt(src, s.current) # expected THEN s
    ELSE [s EXCEPT !.current = @ + 1, !.column = @ + 1]

\* Scanner.addToken
\* Scanner.addToken, a mutation: the text is taken from the start of the source
AddTokenFromOrigin(src, s, type, literal) ==
    LET text == Substring(src, 0, s.current)
        tokenColumn == s.column - (s.current - s.start)
    IN [s EXCEPT !.tokens = Append(@, Token(type, text, literal, s.line, tokenColumn))]

AddToken(src, s, type, literal) ==
    LET text == Substring(src, s.start, s.current)
        tokenColumn == s.column - (s.current - s.start)
    IN [s EXCEPT !.tokens = Append(@, Token(type, text, literal, s.line, tokenColumn))]

\* the one- or two-character operators of scanToken
TwoCharToken(src, s, one, two) ==
    LET m == Match(src, s, "=")
    IN AddToken(src, m, IF m.current # s.current THEN two ELSE one, Nil)

\* scanToken, case '#': the comment loop
RECURSIVE CommentLoop(_, _)
CommentLoop(src, s) ==
    IF Peek(src, s) # "\n" /\ ~IsAtEnd(src, s) THEN CommentLoop(src, Advance(s)) ELSE s

\* Scanner.identifier: its loop
RECURSIVE IdentifierLoop(_, _)
IdentifierLoop(src, s) ==
    IF IsAlphaNumeric(Peek(src, s)) THEN IdentifierLoop(src, Advance(s)) ELSE s

\* Scanner.identifier
Identifier(src, s) ==
    LET e == IdentifierLoop(src, s)
        text == Substring(src, e.start, e.current)
    IN AddToken(src, e, KeywordType(text), Nil)

\* Scanner.number: its two digit loops
RECURSIVE DigitLoop(_, _)
DigitLoop(src, s) ==
    IF IsDigit(Peek(src, s)) THEN DigitLoop(src, Advance(s)) ELSE s

\* Scanner.number, a mutation: a `.` is consumed whatever follows it
NumberAnyDot(src, s) ==
    LET a == DigitLoop(src, s)
        b == IF Peek(src, a) = "." THEN DigitLoop(src, Advance(a)) ELSE a
    IN AddToken(src, b, "NUMBER", ParseFloat(Substring(src, b.start, b.current)))

\* Scanner.number
Number(src, s) ==
    LET a == DigitLoop(src, s)
        b == IF Peek(src, a) = "." /\ IsDigit(PeekNext(src, a))
             THEN DigitLoop(src, Advance(a)) ELSE a
    IN AddToken(src, b, "NUMBER", ParseFloat(Substring(src, b.start, b.current)))

\* Scanner.string: its loop
RECURSIVE StringLoop(_, _)
StringLoop(src, s) ==
    IF Peek(src, s) # "\"" /\ ~IsAtEnd(src, s)
    THEN LET t == IF Peek(src, s) = "\n"
                  THEN [s EXCEPT !.line = @ + 1, !.column = 1] ELSE s
         IN StringLoop(src, Advance(t))
    ELSE s

\* Scanner.string, a mutation: the literal is the whole lexeme
StringWithQuotes(src, s) ==
    LET e == StringLoop(src, s)
    IN IF IsAtEnd(src, e)
       THEN [e EXCEPT !.errorReporter = ErrorLine(@, e.line, "Unterminated string.")]
       ELSE LET f == Advance(e)
            IN AddToken(src, f, "STRING", Str(Substring(src, f.start, f.current)))

\* Scanner.string
String(src, s) ==
    LET e == StringLoop(src, s)
    IN IF IsAtEnd(src, e)
       THEN [e EXCEPT !.errorReporter = ErrorLine(@, e.line, "Unterminated string.")]
       ELSE LET f == Advance(e)
                value == Substring(src, f.start + 1, f.current - 1)
            IN AddToken(src, f, "STRING", Str(value))

\* Scanner.scanToken
ScanToken(src, s0) ==
    LET c == CharAt(src, s0.current)
        s == Advance(s0)
    IN CASE c = "(" -> AddToken(src, s, "LEFT_PAREN", Nil)
         [] c = ")" -> AddToken(src, s, "RIGHT_PAREN", Nil)
         [] c = "," -> AddToken(src, s, "COMMA", Nil)
         [] c = "." -> AddToken(src, s, "DOT", Nil)
         [] c = "-" -> AddToken(src, s, "MINUS", Nil)
         [] c = "+" -> AddToken(src, s, "PLUS", Nil)
         [] c = "*" -> AddToken(src, s, "STAR", Nil)
         [] c = "/" -> AddToken(src, s, "SLASH", Nil)
         [] c = "!" -> TwoCharToken(src, s, "BANG", "BANG_EQUAL")
         [] c = "=" -> TwoCharToken(src, s, "EQUAL", "EQUAL_EQUAL")
         [] c = "<" -> TwoCharToken(src, s, "LESS", "LESS_EQUAL")
         [] c = ">" -> TwoCharToken(src, s, "GREATER", "GREATER_EQUAL")
         [] c = "#" -> CommentLoop(src, s)
         [] c \in {" ", "\r", "\t"} -> s
         [] c = "\n" ->
                [AddToken(src, s, "NEWLINE", Nil) EXCEPT !.line = @ + 1, !.column = 1]
         [] c = "\"" -> String(src, s)
         [] OTHER ->
                IF IsDigit(c) THEN Number(src, s)
                ELSE IF IsAlpha(c) THEN Identifier(src, s)
                ELSE [s EXCEPT !.errorReporter =
                          ErrorAt(@, s.line, s.column - 1, "Unexpected character.")]

\* scanTokens: one pass of its loop
ScanLoopPass(src, s) == ScanToken(src, [s EXCEPT !.start = s.current])

\* scanTokens: the EOF token pushed after the loop
PushEOF(s) == [s EXCEPT !.tokens = Append(@, Token("EOF", <<>>, Nil, s.line, s.column))]

\* Scanner.scanTokens, run to completion
RECURSIVE ScanLoop(_, _)
ScanLoop(src, s) ==
    IF ~IsAtEnd(src, s) THEN ScanLoop(src, ScanLoopPass(src, s)) ELSE s

ScanTokens(src, rep) == PushEOF(ScanLoop(src, NewScanner(rep)))

(***************************************************************************)
(* Environment (environment.ts).  chain[1] is the outermost Environment;   *)
(* the enclosing Environment of chain[i] is chain[i - 1], and chain[1] has *)
(* none.  A scope's `values` map is a function whose domain is the set of  *)
(* names it binds.                                                         *)
(***************************************************************************)
\* new Map()
EmptyMap == [n \in {} |-> Nil]

\* Map.has
Has(values, name) == name \in DOMAIN values

\* Map.set
MapSet(values, name, value) ==
    [n \in DOMAIN values \cup {name} |-> IF n = name THEN value ELSE values[n]]

\* new Environment(enclosing), enclosing being the innermost of ch
NewEnvironment(ch) == Append(ch, EmptyMap)

EnvGetNoEnclosing(ch, i, name) ==
    IF Has(ch[i], name) THEN [ok |-> TRUE, value |-> ch[i][name]]
    ELSE [ok |-> FALSE, value |-> Nil]

\* Environment.get on chain[i]: ok is false for the RuntimeError
\* 'Undefined variable'
RECURSIVE EnvGet(_, _, _)
EnvGet(ch, i, name) ==
    IF Has(ch[i], name) THEN [ok |-> TRUE, value |-> ch[i][name]]
    ELSE IF i > 1 THEN EnvGet(ch, i - 1, name)
    ELSE [ok |-> FALSE, value |-> Nil]

EnvDefineOutermost(ch, i, name, value) ==
    [ch EXCEPT ![1] = MapSet(ch[1], name, value)]

\* Environment.define on chain[i]
EnvDefine(ch, i, name, value) ==
    [ch EXCEPT ![i] = MapSet(ch[i], name, value)]

\* Environment.assign on chain[i]: the chain after the call, and ok false
\* for the RuntimeError 'Undefined variable'.  When the enclosing call
\* returns normally, control falls through to the throw statement.
RECURSIVE EnvAssign(_, _, _, _)
EnvAssign(ch, i, name, value) ==
    IF Has(ch[i], name)
    THEN [chain |-> [ch EXCEPT ![i] = MapSet(ch[i], name, value)], ok |-> TRUE]
    ELSE IF i > 1
    THEN [chain |-> EnvAssign(ch, i - 1, name, value).chain, ok |-> FALSE]
    ELSE [chain |-> ch, ok |-> FALSE]

(***************************************************************************)
(* Syntax tree nodes (ast.ts) as records tagged by class.                  *)
(***************************************************************************)
Null == [t |-> "null"]
Literal(value) == [t |-> "Literal", value |-> value]
Variable(name) == [t |-> "Variable", name |-> name]
Grouping(expression) == [t |-> "Grouping", expression |-> expression]
Unary(operator, right) == [t |-> "Unary", operator |-> operator, right |-> right]
Binary(left, operator, right) ==
    [t |-> "Binary", left |-> left, operator |-> operator, right |-> right]
AssignExpr(name, value) == [t |-> "Assign", name |-> name, value |-> value]
ExpressionStmt(expression) == [t |-> "Expression", expression |-> expression]
PrintStmt(expression) == [t |-> "Print", expression |-> expression]
Var(name, initializer) == [t |-> "Var", name |-> name, initializer |-> initializer]
\* the else-branch of an If when it is not null: Stmt[]
StmtArray(statements) == [t |-> "Stmt[]", statements |-> statements]
If(condition, thenBranch, elseBranch, elseIfBlocks) ==
    [t |-> "If", condition |-> condition, thenBranch |-> thenBranch,
     elseBranch |-> elseBranch, elseIfBlocks |-> elseIfBlocks]

(***************************************************************************)
(* Parser (parser.ts).  A parser state p holds `current` and the reporter; *)
(* a parsing method returns [p, node, err], err standing for a thrown      *)
(* ParseError (node is then Null).                                         *)
(***************************************************************************)
NewParser(rep) == [current |-> 0, errorReporter |-> rep]

\* Parser.peek
ParserPeek(toks, p) == toks[p.current + 1]

\* Parser.previous
ParserPrevious(toks, p) == toks[p.current]

\* Parser.isAtEnd
ParserIsAtEnd(toks, p) == ParserPeek(toks, p).type = "EOF"

\* Parser.check
ParserCheck(toks, p, type) ==
    IF ParserIsAtEnd(toks, p) THEN FALSE ELSE ParserPeek(toks, p).type = type

\* Parser.advance: the state after the call
ParserAdvance(toks, p) ==
    IF ~ParserIsAtEnd(toks, p) THEN [p EXCEPT !.current = @ + 1] ELSE p

\* Parser.match: whether it returns true
Matches(toks, p, types) == \E type \in types : ParserCheck(toks, p, type)

\* Parser.match: the state after the call
ParserMatch(toks, p, types) ==
    IF Matches(toks, p, types) THEN ParserAdvance(toks, p) ELSE p

Ok(p, node) == [p |-> p, node |-> node, err |-> FALSE]

\* sequencing of two parsing steps: a ParseError thrown by the first (r.err)
\* propagates, otherwise the rest runs on the first one's result
Then(first, Rest(_)) ==
    CHOOSE v \in {IF r.err THEN r ELSE Rest(r) : r \in {first}} : TRUE

\* Parser.error followed by throw
Throw(toks, p, token, message) ==
    [p |-> [p EXCEPT !.errorReporter = ErrorToken(@, token, message)],
     node |-> Null, err |-> TRUE]

\* Parser.consume with one token type
Consume(toks, p, type, message) ==
    IF ParserCheck(toks, p, type) THEN Ok(ParserAdvance(toks, p), Null)
    ELSE Throw(toks, p, ParserPeek(toks, p), message)

\* Parser.consume with an array of token types
ConsumeAny(toks, p, types, message) ==
    IF \E i \in 1..Len(types) :
          (ParserIsAtEnd(toks, p) /\ types[i] = "EOF") \/ ParserCheck(toks, p, types[i])
    THEN Ok(ParserAdvance(toks, p), Null)
    ELSE Throw(toks, p, ParserPeek(toks, p), message)

RECURSIVE Assignment(_, _)
RECURSIVE EqualityLoop(_, _)
RECURSIVE ComparisonLoop(_, _)
RECURSIVE TermLoop(_, _)
RECURSIVE Term(_, _)
RECURSIVE FactorLoop(_, _)
RECURSIVE UnaryExpr(_, _)
RECURSIVE Primary(_, _)

\* Parser.expression
Expression(toks, p) == Assignment(toks, p)

\* Parser.primary
Primary(toks, p) ==
    IF Matches(toks, p, {"FALSE"}) THEN Ok(ParserAdvance(toks, p), Literal(Bool(FALSE)))
    ELSE IF Matches(toks, p, {"TRUE"})
    THEN Ok(ParserAdvance(toks, p), Literal(Bool(TRUE)))
    ELSE IF Matches(toks, p, {"NIL"}) THEN Ok(ParserAdvance(toks, p), Literal(Nil))
    ELSE IF Matches(toks, p, {"NUMBER", "STRING"})
    THEN Ok(ParserAdvance(toks, p), Literal(ParserPeek(toks, p).literal))
    ELSE IF Matches(toks, p, {"IDENTIFIER"})
    THEN Ok(ParserAdvance(toks, p), Variable(ParserPeek(toks, p)))
    ELSE IF Matches(toks, p, {"LEFT_PAREN"})
    THEN Then(Expression(toks, ParserAdvance(toks, p)), LAMBDA expr :
         Then(Consume(toks, expr.p, "RIGHT_PAREN", "Expect ')' after expression."),
              LAMBDA c : Ok(c.p, Grouping(expr.node))))
    ELSE Throw(toks, p, ParserPeek(toks, p), "Expect expression.")

\* Parser.unary
UnaryExpr(toks, p) ==
    IF Matches(toks, p, {"BANG", "MINUS"})
    THEN Then(UnaryExpr(toks, ParserAdvance(toks, p)), LAMBDA right :
              Ok(right.p, Unary(ParserPeek(toks, p), right.node)))
    ELSE Primary(toks, p)

\* Parser.factor: its loop, expr being the expression parsed so far
FactorLoop(toks, expr) ==
    IF ~Matches(toks, expr.p, {"STAR", "SLASH"}) THEN expr
    ELSE Then(UnaryExpr(toks, ParserAdvance(toks, expr.p)), LAMBDA right :
              FactorLoop(toks,
                  Ok(right.p, Binary(expr.node, ParserPeek(toks, expr.p), right.node))))

\* Parser.factor
Factor(toks, p) == Then(UnaryExpr(toks, p), LAMBDA expr : FactorLoop(toks, expr))

\* Parser.term, a mutation: the right operand is a whole term, so that `-` and
\* `+` associate to the right
TermLoopRight(toks, expr) ==
    IF ~Matches(toks, expr.p, {"MINUS", "PLUS"}) THEN expr
    ELSE Then(Term(toks, ParserAdvance(toks, expr.p)), LAMBDA right :
              Ok(right.p, Binary(expr.node, ParserPeek(toks, expr.p), right.node)))

\* Parser.term: its loop
TermLoop(toks, expr) ==
    IF ~Matches(toks, expr.p, {"MINUS", "PLUS"}) THEN expr
    ELSE Then(Factor(toks, ParserAdvance(toks, expr.p)), LAMBDA right :
              TermLoop(toks,
                  Ok(right.p, Binary(expr.node, ParserPeek(toks, expr.p), right.node))))

\* Parser.term
Term(toks, p) == Then(Factor(toks, p), LAMBDA expr : TermLoop(toks, expr))

\* Parser.comparison: its loop
ComparisonLoop(toks, expr) ==
    IF ~Matches(toks, expr.p, {"GREATER", "GREATER_EQUAL", "LESS", "LESS_EQUAL"})
    THEN expr
    ELSE Then(Term(toks, ParserAdvance(toks, expr.p)), LAMBDA right :
              ComparisonLoop(toks,
                  Ok(right.p, Binary(expr.node, ParserPeek(toks, expr.p), right.node))))

\* Parser.comparison
Comparison(toks, p) == Then(Term(toks, p), LAMBDA expr : ComparisonLoop(toks, expr))

\* Parser.equality: its loop
EqualityLoop(toks, expr) ==
    IF ~Matches(toks, expr.p, {"BANG_EQUAL", "EQUAL_EQUAL"}) THEN expr
    ELSE Then(Comparison(toks, ParserAdvance(toks, expr.p)), LAMBDA right :
              EqualityLoop(toks,
                  Ok(right.p, Binary(expr.node, ParserPeek(toks, expr.p), right.node))))

\* Parser.equality
Equality(toks, p) == Then(Comparison(toks, p), LAMBDA expr : EqualityLoop(toks, expr))

\* Parser.assignment, a mutation: the error of an invalid target is thrown
AssignmentThrowing(toks, p) ==
    Then(Equality(toks, p), LAMBDA expr :
         IF ~Matches(toks, expr.p, {"ITU"}) THEN expr
         ELSE Then(Assignment(toks, ParserAdvance(toks, expr.p)), LAMBDA value :
                   IF expr.node.t = "Variable"
                   THEN Ok(value.p, AssignExpr(expr.node.name, value.node))
                   ELSE Throw(toks, value.p, ParserPeek(toks, expr.p),
                              "Invalid assignment target.")))

\* Parser.assignment
Assignment(toks, p) ==
    Then(Equality(toks, p), LAMBDA expr :
         IF ~Matches(toks, expr.p, {"ITU"}) THEN expr
         ELSE Then(Assignment(toks, ParserAdvance(toks, expr.p)), LAMBDA value :
                   IF expr.node.t = "Variable"
                   THEN Ok(value.p, AssignExpr(expr.node.name, value.node))
                   ELSE Ok([value.p EXCEPT !.errorReporter =
                               ErrorToken(@, ParserPeek(toks, expr.p),
                                          "Invalid assignment target.")],
                           expr.node)))

\* Parser.expressionStatement
ExpressionStatement(toks, p) ==
    Then(Expression(toks, p), LAMBDA expr :
    Then(ConsumeAny(toks, expr.p, <<"NEWLINE", "EOF">>, "Expect newline after expression."),
         LAMBDA c : Ok(c.p, ExpressionStmt(expr.node))))

\* Parser.spillStatement
SpillStatement(toks, p) ==
    Then(Expression(toks, p), LAMBDA value :
    Then(ConsumeAny(toks, value.p, <<"NEWLINE", "EOF">>, "Expect newline after value."),
         LAMBDA c : Ok(c.p, PrintStmt(value.node))))

\* Parser.varDeclaration, a mutation: the initializer is parsed and dropped
VarDeclarationBare(toks, p) ==
    Then(Consume(toks, p, "IDENTIFIER", "Expect variable name."), LAMBDA name :
    Then(IF Matches(toks, name.p, {"ITU"})
         THEN Expression(toks, ParserAdvance(toks, name.p))
         ELSE Ok(name.p, Null), LAMBDA initializer :
    Then(Consume(toks, initializer.p, "NEWLINE",
                 "Expect newline after variable declaration."),
         LAMBDA c : Ok(c.p, Var(ParserPrevious(toks, name.p), Null)))))

\* Parser.varDeclaration
VarDeclaration(toks, p) ==
    Then(Consume(toks, p, "IDENTIFIER", "Expect variable name."), LAMBDA name :
    Then(IF Matches(toks, name.p, {"ITU"})
         THEN Expression(toks, ParserAdvance(toks, name.p))
         ELSE Ok(name.p, Null), LAMBDA initializer :
    Then(Consume(toks, initializer.p, "NEWLINE",
                 "Expect newline after variable declaration."),
         LAMBDA c : Ok(c.p, Var(ParserPrevious(toks, name.p), initializer.node)))))

RECURSIVE Statement(_, _)
RECURSIVE OpenBlockLoop(_, _)
RECURSIVE ElseIfLoop(_, _)

\* Parser.openblock: its loop, block.node being the statements so far
OpenBlockLoop(toks, block) ==
    IF ParserIsAtEnd(toks, block.p)
       \/ ParserPeek(toks, block.p).type \in {"UDAHAN", "PERHAPS", "KALOGAK"}
    THEN block
    ELSE IF Matches(toks, block.p, {"NEWLINE"})
    THEN OpenBlockLoop(toks, Ok(ParserAdvance(toks, block.p), block.node))
    ELSE Then(Statement(toks, block.p), LAMBDA s :
              OpenBlockLoop(toks, Ok(s.p, Append(block.node, s.node))))

\* Parser.openblock
OpenBlock(toks, p) ==
    Then(Consume(toks, p, "NEWLINE", "Expect newline before block."),
         LAMBDA c : OpenBlockLoop(toks, Ok(c.p, <<>>)))

\* Parser.ifStatement, a mutation: `if` for `while`, one else-if at most
ElseIfOnce(toks, blocks) ==
    IF ~Matches(toks, blocks.p, {"PERHAPS"}) THEN blocks
    ELSE Then(Expression(toks, ParserAdvance(toks, blocks.p)), LAMBDA elseIfCondition :
         Then(OpenBlock(toks, elseIfCondition.p), LAMBDA elseIfBranch :
              Ok(elseIfBranch.p,
                 Append(blocks.node,
                        If(elseIfCondition.node, elseIfBranch.node, Null, <<>>)))))

\* Parser.ifStatement: the else-if loop, blocks.node being elseIfBlocks so far
ElseIfLoop(toks, blocks) ==
    IF ~Matches(toks, blocks.p, {"PERHAPS"}) THEN blocks
    ELSE Then(Expression(toks, ParserAdvance(toks, blocks.p)), LAMBDA elseIfCondition :
         Then(OpenBlock(toks, elseIfCondition.p), LAMBDA elseIfBranch :
              ElseIfLoop(toks,
                  Ok(elseIfBranch.p,
                     Append(blocks.node,
                            If(elseIfCondition.node, elseIfBranch.node, Null, <<>>))))))

\* Parser.ifStatement
IfStatement(toks, p) ==
    Then(Expression(toks, p), LAMBDA condition :
    Then(OpenBlock(toks, condition.p), LAMBDA thenBranch :
    Then(ElseIfLoop(toks, Ok(thenBranch.p, <<>>)), LAMBDA elseIfBlocks :
    Then(IF Matches(toks, elseIfBlocks.p, {"KALOGAK"})
         THEN Then(OpenBlock(toks, ParserAdvance(toks, elseIfBlocks.p)),
                   LAMBDA block : Ok(block.p, StmtArray(block.node)))
         ELSE Ok(elseIfBlocks.p, Null), LAMBDA elseBranch :
    Then(Consume(toks, elseBranch.p, "UDAHAN", "Expect 'udahan' after if statement."),
         LAMBDA c : Ok(c.p, If(condition.node, thenBranch.node, elseBranch.node,
                               elseIfBlocks.node)))))))

\* Parser.statement
Statement(toks, p) ==
    IF Matches(toks, p, {"KALO"}) THEN IfStatement(toks, ParserAdvance(toks, p))
    ELSE IF Matches(toks, p, {"SPILL"}) THEN SpillStatement(toks, ParserAdvance(toks, p))
    ELSE ExpressionStatement(toks, p)

\* Parser.synchronize
RECURSIVE Synchronize(_, _)
Synchronize(toks, p) ==
    IF ParserIsAtEnd(toks, p) THEN p
    ELSE IF ParserPeek(toks, p).type \in {"NEWLINE", "FOMO", "SPILL", "SO", "KALO"}
    THEN p
    ELSE Synchronize(toks, ParserAdvance(toks, p))

\* the catch block of Parser.declaration
Recover(toks, r) == IF r.err THEN Ok(Synchronize(toks, r.p), Null) ELSE r

\* Parser.declaration: the state after the call and the statement or null
\* it returns
Declaration(toks, p) ==
    CHOOSE v \in {Recover(toks, r) :
                    r \in {IF Matches(toks, p, {"LITERALLY"})
                           THEN VarDeclaration(toks, ParserAdvance(toks, p))
                           ELSE Statement(toks, p)}} : TRUE

(***************************************************************************)
(* Interpreter (interpreter.ts).  An interpreter state st holds the        *)
(* current Environment (the innermost of st.environment) and what          *)
(* console.log has written.  A visit method returns [st, value, err,       *)
(* error], err standing for a thrown error.                                *)
(***************************************************************************)
NoError == [kind |-> "none", token |-> Null, message |-> ""]

\* new RuntimeError(token, message)
RuntimeError(token, message) ==
    [kind |-> "RuntimeError", token |-> token, message |-> message]

\* the TypeError of calling a method on null
NullTypeError == [kind |-> "TypeError", token |-> Null, message |-> "null.accept"]

Value(st, value) == [st |-> st, value |-> value, err |-> FALSE, error |-> NoError]

Raise(st, error) == [st |-> st, value |-> Nil, err |-> TRUE, error |-> error]

\* Interpreter.isTruthy, a mutation: 0 and the empty string are falsy too
IsTruthyOfJavaScript(obj) ==
    IF obj.k = "nil" THEN FALSE
    ELSE IF obj.k = "boolean" THEN obj.n = 1
    ELSE IF obj.k = "number" THEN obj.n # 0
    ELSE obj.s # <<>>

\* Interpreter.isTruthy
IsTruthy(obj) ==
    IF obj.k = "nil" THEN FALSE
    ELSE IF obj.k = "boolean" THEN obj.n = 1
    ELSE TRUE

IsNaN(a) == a.k = "number" /\ a.n = 0 /\ a.d = 0

\* Interpreter.isEqual, a mutation: the kinds are not compared
IsEqualAcrossKinds(a, b) == a.n = b.n /\ a.d = b.d /\ a.s = b.s /\ ~IsNaN(a)

\* Interpreter.isEqual: a === b
IsEqual(a, b) == a = b /\ ~IsNaN(a)

\* the number arithmetic of JavaScript on exact values; n/0 stands for
\* Infinity (n > 0), -Infinity (n < 0) and NaN (n = 0)
Sign(x) == IF x > 0 THEN 1 ELSE IF x < 0 THEN -1 ELSE 0

NumAdd(a, b) ==
    IF a.d # 0 /\ b.d # 0 THEN Num(a.n * b.d + b.n * a.d, a.d * b.d)
    ELSE IF IsNaN(a) \/ IsNaN(b) THEN [a EXCEPT !.n = 0, !.d = 0]
    ELSE IF a.d = 0 /\ b.d = 0 THEN (IF a.n = b.n THEN a ELSE [a EXCEPT !.n = 0])
    ELSE IF a.d = 0 THEN a ELSE b

NumNeg(a) == [a EXCEPT !.n = -a.n]

NumMul(a, b) ==
    IF a.d # 0 /\ b.d # 0 THEN Num(a.n * b.n, a.d * b.d)
    ELSE [k |-> "number", n |-> Sign(a.n) * Sign(b.n), d |-> 0, s |-> <<>>]

NumDiv(a, b) ==
    IF a.d # 0 /\ b.d # 0 /\ b.n # 0 THEN Num(a.n * b.d, a.d * b.n)
    ELSE IF b.n = 0 /\ b.d # 0
    THEN [k |-> "number", n |-> Sign(a.n), d |-> 0, s |-> <<>>]
    ELSE IF b.d = 0 /\ a.d # 0 /\ b.n # 0 THEN Num(0, 1)
    ELSE [k |-> "number", n |-> 0, d |-> 0, s |-> <<>>]

NumLess(a, b) ==
    /\ ~IsNaN(a)
    /\ ~IsNaN(b)
    /\ IF a.d = 0 /\ b.d = 0 THEN a.n < b.n ELSE a.n * b.d < b.n * a.d

\* Interpreter.checkNumberOperand
CheckNumberOperand(operand) == operand.k = "number"

\* Interpreter.checkNumberOperands, a mutation: the right operand is not
\* looked at
CheckLeftOperand(left, right) == left.k = "number"

\* Interpreter.checkNumberOperands
CheckNumberOperands(left, right) == left.k = "number" /\ right.k = "number"

\* Interpreter.visitBinary: the switch on the operator, both operands
\* evaluated
BinaryOp(st, operator, left, right) ==
    LET type == operator.type
        numbers == CheckNumberOperands(left, right)
        mismatch == Raise(st, RuntimeError(operator, "Operands must be a number."))
    IN CASE type = "GREATER" ->
                IF numbers THEN Value(st, Bool(NumLess(right, left))) ELSE mismatch
         [] type = "GREATER_EQUAL" ->
                IF numbers
                THEN Value(st, Bool(NumLess(right, left)
                                    \/ (left = right /\ ~IsNaN(left))))
                ELSE mismatch
         [] type = "LESS" ->
                IF numbers THEN Value(st, Bool(NumLess(left, right))) ELSE mismatch
         [] type = "LESS_EQUAL" ->
                IF numbers
                THEN Value(st, Bool(NumLess(left, right)
                                    \/ (left = right /\ ~IsNaN(left))))
                ELSE mismatch
         [] type = "BANG_EQUAL" -> Value(st, Bool(~IsEqual(left, right)))
         [] type = "EQUAL_EQUAL" -> Value(st, Bool(IsEqual(left, right)))
         [] type = "MINUS" ->
                IF numbers THEN Value(st, NumAdd(left, NumNeg(right))) ELSE mismatch
         [] type = "SLASH" ->
                IF numbers THEN Value(st, NumDiv(left, right)) ELSE mismatch
         [] type = "STAR" ->
                IF numbers THEN Value(st, NumMul(left, right)) ELSE mismatch
         [] type = "PLUS" ->
                IF numbers THEN Value(st, NumAdd(left, right))
                ELSE IF left.k = "string" /\ right.k = "string"
                THEN Value(st, Str(left.s \o right.s))
                ELSE Value(st, Nil)
         [] OTHER -> Value(st, Nil)

\* Interpreter.visitUnary: the switch on the operator, the operand evaluated
UnaryOp(st, operator, right) ==
    CASE operator.type = "BANG" -> Value(st, Bool(~IsTruthy(right)))
      [] operator.type = "MINUS" ->
            IF CheckNumberOperand(right) THEN Value(st, NumNeg(right))
            ELSE Raise(st, RuntimeError(operator, "Operand must be a number."))
      [] OTHER -> Value(st, Nil)

\* Interpreter.visitVariable
VisitVariable(st, name) ==
    CHOOSE v \in {IF g.ok THEN Value(st, g.value)
                  ELSE Raise(st, RuntimeError(name, "Undefined variable {name}.")) :
                     g \in {EnvGet(st.environment, Len(st.environment), name.lexeme)}} :
        TRUE

\* Interpreter.visitAssign, the value evaluated
AssignValue(st, name, value) ==
    CHOOSE v \in {IF a.ok THEN Value([st EXCEPT !.environment = a.chain], value)
                  ELSE Raise([st EXCEPT !.environment = a.chain],
                             RuntimeError(name, "Undefined variable '{name}'.")) :
                     a \in {EnvAssign(st.environment, Len(st.environment),
                                      name.lexeme, value)}} :
        TRUE

\* Interpreter.evaluate: expr.accept(this) with the visit methods of the
\* expression classes
RECURSIVE Evaluate(_, _)
\* Interpreter.evaluate, a mutation: visitBinary evaluates its right operand
\* first
EvaluateRightFirst(st, expr) ==
    CASE expr.t = "Literal" -> Value(st, expr.value)
      [] expr.t = "Grouping" -> Evaluate(st, expr.expression)
      [] expr.t = "Unary" ->
            Then(Evaluate(st, expr.right), LAMBDA right :
                 UnaryOp(right.st, expr.operator, right.value))
      [] expr.t = "Binary" ->
            Then(Evaluate(st, expr.right), LAMBDA right :
            Then(Evaluate(right.st, expr.left), LAMBDA left :
                 BinaryOp(left.st, expr.operator, left.value, right.value)))
      [] expr.t = "Variable" -> VisitVariable(st, expr.name)
      [] expr.t = "Assign" ->
            Then(Evaluate(st, expr.value), LAMBDA value :
                 AssignValue(value.st, expr.name, value.value))

Evaluate(st, expr) ==
    CASE expr.t = "Literal" -> Value(st, expr.value)
      [] expr.t = "Grouping" -> Evaluate(st, expr.expression)
      [] expr.t = "Unary" ->
            Then(Evaluate(st, expr.right), LAMBDA right :
                 UnaryOp(right.st, expr.operator, right.value))
      [] expr.t = "Binary" ->
            Then(Evaluate(st, expr.left), LAMBDA left :
            Then(Evaluate(left.st, expr.right), LAMBDA right :
                 BinaryOp(right.st, expr.operator, left.value, right.value)))
      [] expr.t = "Variable" -> VisitVariable(st, expr.name)
      [] expr.t = "Assign" ->
            Then(Evaluate(st, expr.value), LAMBDA value :
                 AssignValue(value.st, expr.name, value.value))

\* console.log(value)
ConsoleLog(st, value) == [st EXCEPT !.output = Append(@, value)]

RECURSIVE ExecuteBlock(_, _, _)
RECURSIVE ElseIfChain(_, _, _)
RECURSIVE VisitIf(_, _)

\* Interpreter.execute: stmt.accept(this) with the visit methods of the
\* statement classes; null has no accept method
RECURSIVE Execute(_, _)
Execute(st, stmt) ==
    CASE stmt.t = "null" -> Raise(st, NullTypeError)
      [] stmt.t = "Expression" ->
            Then(Evaluate(st, stmt.expression), LAMBDA value : Value(value.st, Nil))
      [] stmt.t = "Print" ->
            Then(Evaluate(st, stmt.expression), LAMBDA value :
                 Value(ConsoleLog(value.st, value.value), Nil))
      [] stmt.t = "Var" ->
            Then(IF stmt.initializer # Null THEN Evaluate(st, stmt.initializer)
                 ELSE Value(st, Nil), LAMBDA value :
                 Value([value.st EXCEPT !.environment =
                           EnvDefine(@, Len(@), stmt.name.lexeme, value.value)],
                       Nil))
      [] stmt.t = "If" -> VisitIf(st, stmt)

\* visitIf: the then-branch when the condition is truthy
VisitIf(st, stmt) ==
    Then(Evaluate(st, stmt.condition), LAMBDA condition :
         IF IsTruthy(condition.value)
         THEN ExecuteBlock(condition.st, stmt.thenBranch, 1)
         ELSE ElseIfChain(condition.st, stmt, 1))

\* visitIf: the else-if branches from the i-th on, then the else-branch
ElseIfChain(st, stmt, i) ==
    IF i <= Len(stmt.elseIfBlocks)
    THEN Then(Evaluate(st, stmt.elseIfBlocks[i].condition), LAMBDA condition :
              IF IsTruthy(condition.value)
              THEN ExecuteBlock(condition.st, stmt.elseIfBlocks[i].thenBranch, 1)
              ELSE ElseIfChain(condition.st, stmt, i + 1))
    ELSE IF stmt.elseBranch # Null
    THEN ExecuteBlock(st, stmt.elseBranch.statements, 1)
    ELSE Value(st, Nil)

\* the statements of a block from the i-th on, in the innermost Environment
RECURSIVE BlockLoop(_, _, _)
BlockLoop(st, statements, i) ==
    IF i > Len(statements) THEN Value(st, Nil)
    ELSE Then(Execute(st, statements[i]), LAMBDA done :
              BlockLoop(done.st, statements, i + 1))

\* the Environment a block ran in is dropped when the block is left
LeaveBlock(r) ==
    [r EXCEPT !.st.environment = SubSeq(@, 1, Len(@) - 1)]

\* a branch of an if statement: its statements in a new nested Environment
ExecuteBlock(st, statements, i) ==
    CHOOSE v \in {LeaveBlock(r) :
                    r \in {BlockLoop([st EXCEPT !.environment = NewEnvironment(@)],
                                     statements, i)}} : TRUE

(***************************************************************************)
(* Values of the variables a specification does not use.                   *)
(***************************************************************************)
IdleScanner == NewScanner(NewReporter)
IdleCall ==
    [op |-> "none", env |-> 0, name |-> <<>>, value |-> Nil, ok |-> TRUE,
     result |-> Nil, before |-> <<>>]
IdleParser ==
    [tokens |-> <<>>, current |-> 0, errorReporter |-> NewReporter,
     statements |-> <<>>]
IdleJaksel ==
    [errorReporter |-> NewReporter, runs |-> 0, ip |-> 0, output |-> <<>>,
     executed |-> <<>>, caught |-> NoError, lastEnvironment |-> <<>>]

(***************************************************************************)
(* SpecScan: Scanner.scanTokens on one source, one pass of its loop per    *)
(* step.                                                                   *)
(***************************************************************************)
ScanAlphabet == {"(", "!", "=", "#", " ", "\n", "\"", "1", ".", "a", "@"}

\* the sources of Jaksel.test.ts
TestSources ==
    { <<"(", ")", ",", ".", "-", "+", "*", "/", "!", "!", "=", "=", "=", ">",
        "=", "<", "=", "=", "\n", ">", "<", "\t", "#", " ", "k", "o", "m",
        "e", "n", "t", "a", "r", "\r", "\n", " ", "\"", "F", "a", "j", "a",
        "r", " ", "\n", " ", "A", "l", "f", "a", "\"">>,
      <<">", "<", "!", "\"", "F", "a", "j", "a", "r", " ", "A", "l", "f", "a",
        "\"">>,
      <<">", " ", "1", "2", "3", " ", "=">>,
      <<"1", "2", "3", ".", "4", "5", " ", "+">> }

\* the characters of the one- and two-character operators, of a comment and
\* of white space
OperatorAlphabet == {"!", "=", "<", ">", "#", " ", "\t", "\r", "\n"}

\* the characters of numeric literals
NumberAlphabet == {"1", "2", "."}

\* the reserved words, and words that are none
Words ==
    {Keywords[i][1] : i \in 1..Len(Keywords)}
    \cup { <<"s", "p", "i", "l", "l", "x">>, <<"x", "s", "p", "i", "l", "l">>,
           <<"i", "t", "u", "1">>, <<"s", "o", "_">>, <<"_">>, <<"i">>,
           <<"R", "i", "l">>, <<"_", "9", "z">> }

ShortSources ==
    UNION {[1..n -> ScanAlphabet] \cup [1..n -> OperatorAlphabet] : n \in 0..MaxSrcLen}
    \cup UNION {[1..n -> NumberAlphabet] : n \in 1..(MaxSrcLen + 2)}
    \cup {<<"\"", "\n", "\"", "@">>}
    \cup Words
    \cup {w \o <<" ">> \o v : w \in Words, v \in Words}

InitScan ==
    /\ pc = "scan"
    /\ source \in ShortSources \cup TestSources
    /\ scanner = NewScanner(NewReporter)
    /\ chain = <<>>
    /\ call = IdleCall
    /\ input = <<>>
    /\ parser = IdleParser
    /\ jaksel = IdleJaksel

\* scanTokens: the loop condition holds, one pass
ScanStep ==
    /\ pc = "scan"
    /\ ~IsAtEnd(source, scanner)
    /\ scanner' = ScanLoopPass(source, scanner)
    /\ UNCHANGED <<input, pc, source, chain, call, parser, jaksel>>

\* scanTokens: the loop condition fails, push EOF and return
ScanReturn ==
    /\ pc = "scan"
    /\ IsAtEnd(source, scanner)
    /\ scanner' = PushEOF(scanner)
    /\ pc' = "scanned"
    /\ UNCHANGED <<input, source, chain, call, parser, jaksel>>

NextScan == ScanStep \/ ScanReturn

SpecScan == InitScan /\ [][NextScan]_vars

(***************************************************************************)
(* SpecEnv: the Environment methods called, with any arguments, on any     *)
(* Environment of a chain that the constructor has built.  `call` records  *)
(* the last call, the chain before it and its outcome.                     *)
(***************************************************************************)
Names == {<<"x">>, <<"y">>}
Values == {IntVal(1), IntVal(2)}

InitEnv ==
    /\ pc = "env"
    /\ chain = <<EmptyMap>>
    /\ call = IdleCall
    /\ input = <<>>
    /\ source = <<>>
    /\ scanner = IdleScanner
    /\ parser = IdleParser
    /\ jaksel = IdleJaksel

Construct ==
    /\ Len(chain) < MaxDepth
    /\ chain' = NewEnvironment(chain)
    /\ call' = [IdleCall EXCEPT !.op = "new", !.before = chain]
    /\ UNCHANGED <<input, pc, source, scanner, parser, jaksel>>

Get ==
    \E i \in 1..Len(chain), name \in Names :
        LET r == EnvGet(chain, i, name)
        IN /\ call' = [op |-> "get", env |-> i, name |-> name, value |-> Nil,
                       ok |-> r.ok, result |-> r.value, before |-> chain]
           /\ UNCHANGED <<input, pc, chain, source, scanner, parser, jaksel>>

Define ==
    \E i \in 1..Len(chain), name \in Names, value \in Values :
        /\ chain' = EnvDefine(chain, i, name, value)
        /\ call' = [op |-> "define", env |-> i, name |-> name, value |-> value,
                    ok |-> TRUE, result |-> Nil, before |-> chain]
        /\ UNCHANGED <<input, pc, source, scanner, parser, jaksel>>

Assign ==
    \E i \in 1..Len(chain), name \in Names, value \in Values :
        LET r == EnvAssign(chain, i, name, value)
        IN /\ chain' = r.chain
           /\ call' = [op |-> "assign", env |-> i, name |-> name, value |-> value,
                       ok |-> r.ok, result |-> Nil, before |-> chain]
           /\ UNCHANGED <<input, pc, source, scanner, parser, jaksel>>

NextEnv == Construct \/ Get \/ Define \/ Assign

SpecEnv == InitEnv /\ [][NextEnv]_vars

(***************************************************************************)
(* SpecParse: Parser.parse on one token sequence ending in EOF, one pass   *)
(* of its loop per step.                                                   *)
(***************************************************************************)
\* a token kind: the type, lexeme and literal the scanner would give it
Kind(type, lexeme, literal) == [type |-> type, lexeme |-> lexeme, literal |-> literal]

\* the token kind of a word of the language
Word(type) ==
    CASE type = "NEWLINE" -> Kind("NEWLINE", <<"\n">>, Nil)
      [] type = "IDENTIFIER" -> Kind("IDENTIFIER", <<"x">>, Nil)
      [] type = "ITU" -> Kind("ITU", <<"i", "t", "u">>, Nil)
      [] type = "SPILL" -> Kind("SPILL", <<"s", "p", "i", "l", "l">>, Nil)
      [] type = "LITERALLY" ->
            Kind("LITERALLY", <<"l", "i", "t", "e", "r", "a", "l", "l", "y">>, Nil)
      [] type = "SO" -> Kind("SO", <<"s", "o">>, Nil)
      [] type = "KALO" -> Kind("KALO", <<"k", "a", "l", "o">>, Nil)
      [] type = "PERHAPS" -> Kind("PERHAPS", <<"p", "e", "r", "h", "a", "p", "s">>, Nil)
      [] type = "KALOGAK" -> Kind("KALOGAK", <<"k", "a", "l", "o", "g", "a", "k">>, Nil)
      [] type = "UDAHAN" -> Kind("UDAHAN", <<"u", "d", "a", "h", "a", "n">>, Nil)
      [] type = "TRUE" -> Kind("TRUE", <<"r", "i", "l">>, Nil)
      [] type = "FALSE" ->
            Kind("FALSE", <<"i", "m", "p", "o", "s", "s", "i", "b", "l", "e">>, Nil)
      [] type = "NIL" -> Kind("NIL", <<"h", "a", "m", "p", "a">>, Nil)

\* the token kind of a one-digit number
NumberKind(n) == Kind("NUMBER", <<n>>, IntVal(DigitValue(n)))

\* the token kinds the short sequences are made of
ParseAlphabet ==
    { Word("NEWLINE"), NumberKind("1"), Word("IDENTIFIER"), Kind("PLUS", <<"+">>, Nil),
      Kind("LEFT_PAREN", <<"(">>, Nil), Kind("RIGHT_PAREN", <<")">>, Nil),
      Word("ITU"), Word("SPILL"), Word("LITERALLY"), Word("SO"), Word("KALO"),
      Word("UDAHAN") }

\* the tokens of a sequence of kinds followed by EOF, a NEWLINE ending a line
MakeTokens(kinds) ==
    [i \in 1..(Len(kinds) + 1) |->
        LET line == 1 + Cardinality({j \in 1..(i - 1) : kinds[j].type = "NEWLINE"})
        IN IF i <= Len(kinds)
           THEN Token(kinds[i].type, kinds[i].lexeme, kinds[i].literal, line, i)
           ELSE Token("EOF", <<>>, Nil, line, i)]

ShortTokenSequences ==
    {MakeTokens(kinds) : kinds \in UNION {[1..n -> ParseAlphabet] : n \in 0..MaxTokens}}

\* lines that are no statement: `)`, `1 )`, `( 1`, `1 +` and `so`
MalformedLines ==
    { <<Kind("RIGHT_PAREN", <<")">>, Nil)>>,
      <<NumberKind("1"), Kind("RIGHT_PAREN", <<")">>, Nil)>>,
      <<Kind("LEFT_PAREN", <<"(">>, Nil), NumberKind("1")>>,
      <<NumberKind("1"), Kind("PLUS", <<"+">>, Nil)>>,
      <<Word("SO")>> }

\* statements on a line of their own, `spill 1`, `2` and `( 3 )`, with the
\* node each is parsed into
WellFormedLines ==
    { [kinds |-> <<Word("SPILL"), NumberKind("1")>>,
       node |-> PrintStmt(Literal(IntVal(1)))],
      [kinds |-> <<NumberKind("2")>>,
       node |-> ExpressionStmt(Literal(IntVal(2)))],
      [kinds |-> <<Kind("LEFT_PAREN", <<"(">>, Nil), NumberKind("3"),
                   Kind("RIGHT_PAREN", <<")">>, Nil)>>,
       node |-> ExpressionStmt(Grouping(Literal(IntVal(3))))] }

\* the lines that follow a malformed one
Followers == UNION {[1..n -> WellFormedLines] : n \in 1..2}

RECURSIVE FollowerKinds(_, _)
FollowerKinds(ws, i) ==
    IF i > Len(ws) THEN <<>>
    ELSE ws[i].kinds \o <<Word("NEWLINE")>> \o FollowerKinds(ws, i + 1)

\* a malformed line followed by well-formed ones
RecoveryProgram(m, ws) == MakeTokens(m \o <<Word("NEWLINE")>> \o FollowerKinds(ws, 1))

RecoveryPrograms == {RecoveryProgram(m, ws) : m \in MalformedLines, ws \in Followers}

\* the kinds of left sides that are no variable: `1`, `(x)` and `1 + x`
InvalidTargets ==
    << <<NumberKind("1")>>,
       <<Kind("LEFT_PAREN", <<"(">>, Nil), Word("IDENTIFIER"),
         Kind("RIGHT_PAREN", <<")">>, Nil)>>,
       <<NumberKind("1"), Kind("PLUS", <<"+">>, Nil), Word("IDENTIFIER")>> >>

\* the kinds of right sides: `2`, `x`, `x itu 2` and `(2)`
AssignedSides ==
    { <<NumberKind("2")>>, <<Word("IDENTIFIER")>>,
      <<Word("IDENTIFIER"), Word("ITU"), NumberKind("2")>>,
      <<Kind("LEFT_PAREN", <<"(">>, Nil), NumberKind("2"),
        Kind("RIGHT_PAREN", <<")">>, Nil)>> }

\* the line: target i, `itu`, the right side v
InvalidAssignment(i, v) ==
    MakeTokens(InvalidTargets[i] \o <<Word("ITU")>> \o v \o <<Word("NEWLINE")>>)

InitParse ==
    /\ pc = "parse"
    /\ \E toks \in ShortTokenSequences \cup RecoveryPrograms
                    \cup {InvalidAssignment(i, v) :
                            i \in 1..Len(InvalidTargets), v \in AssignedSides} :
          parser = [tokens |-> toks, current |-> 0, errorReporter |-> NewReporter,
                    statements |-> <<>>]
    /\ source = <<>>
    /\ scanner = IdleScanner
    /\ chain = <<>>
    /\ call = IdleCall
    /\ input = <<>>
    /\ jaksel = IdleJaksel

\* parse: a pass of the loop that skips a NEWLINE
ParseSkipNewline ==
    /\ pc = "parse"
    /\ ~ParserIsAtEnd(parser.tokens, parser)
    /\ Matches(parser.tokens, parser, {"NEWLINE"})
    /\ parser' = ParserMatch(parser.tokens, parser, {"NEWLINE"})
    /\ UNCHANGED <<input, pc, source, scanner, chain, call, jaksel>>

\* parse: a pass of the loop that pushes declaration()
ParseDeclaration ==
    /\ pc = "parse"
    /\ ~ParserIsAtEnd(parser.tokens, parser)
    /\ ~Matches(parser.tokens, parser, {"NEWLINE"})
    /\ Len(parser.statements) < MaxPasses
    /\ LET r == Declaration(parser.tokens, parser)
       IN parser' = [r.p EXCEPT !.statements = Append(@, r.node)]
    /\ UNCHANGED <<input, pc, source, scanner, chain, call, jaksel>>

\* parse: the loop condition fails, return statements
ParseReturn ==
    /\ pc = "parse"
    /\ ParserIsAtEnd(parser.tokens, parser)
    /\ pc' = "parsed"
    /\ UNCHANGED <<input, parser, source, scanner, chain, call, jaksel>>

NextParse == ParseSkipNewline \/ ParseDeclaration \/ ParseReturn

SpecParse == InitParse /\ [][NextParse]_vars

(***************************************************************************)
(* Jaksel.run after the parse: new Interpreter(errorReporter) and its      *)
(* intepret(statements), one statement of its loop per step.  jaksel.ip is *)
(* the position of the loop, jaksel.output what console.log has written    *)
(* during the run, jaksel.executed the statements executed with their      *)
(* outcome, and chain the Interpreter's environment.                       *)
(***************************************************************************)
\* run: new Interpreter(this.errorReporter), and intepret is entered
Interpret ==
    /\ pc = "parsed"
    /\ pc' = "interpret"
    /\ chain' = <<EmptyMap>>
    /\ jaksel' = [jaksel EXCEPT !.errorReporter = parser.errorReporter, !.ip = 1]
    /\ UNCHANGED <<input, source, scanner, call, parser>>

\* intepret: the try block encloses the loop, and an error leaves it for the
\* catch clause.  The clause calls this.errorReporter.runtimeError(err), a
\* method ConsoleErrorReporter does not have: the call raises a TypeError,
\* which leaves intepret and run
IntepretNext(err) == IF err THEN "thrown" ELSE "interpret"

\* intepret: execute(s) for the next statement, and the catch clause
ExecuteStatement ==
    /\ pc = "interpret"
    /\ jaksel.ip <= Len(parser.statements)
    /\ \E r \in {Execute([environment |-> chain, output |-> jaksel.output],
                         parser.statements[jaksel.ip])} :
          /\ chain' = r.st.environment
          /\ jaksel' = [jaksel EXCEPT
                          !.output = r.st.output,
                          !.executed = Append(@, [index |-> jaksel.ip, ok |-> ~r.err]),
                          !.ip = @ + 1,
                          !.caught = IF r.err THEN r.error ELSE @]
          /\ pc' = IntepretNext(r.err)
    /\ UNCHANGED <<input, source, scanner, call, parser>>

\* intepret: the loop is over
IntepretReturn ==
    /\ pc = "interpret"
    /\ jaksel.ip > Len(parser.statements)
    /\ pc' = "return"
    /\ UNCHANGED <<input, source, scanner, chain, call, parser, jaksel>>

\* the run is over: intepret has returned, or an exception has left it
Over == pc \in {"return", "thrown"}

(***************************************************************************)
(* SpecIf: Parser.parse and Interpreter.intepret on the tokens of a        *)
(* program with an if statement.                                           *)
(***************************************************************************)
Conditions == {Word("TRUE"), Word("FALSE"), Word("NIL"), NumberKind("0")}

\* spill i NEWLINE, i being the digit a branch prints: 0 in the then-branch,
\* i in the i-th else-if branch, 9 in the else-branch; 7 is printed after the
\* if statement
SpillDigit(i) ==
    <<Word("SPILL"),
      NumberKind(<<"0", "1", "2", "3", "4", "5", "6", "7", "8", "9">>[i + 1]),
      Word("NEWLINE")>>

RECURSIVE ElseIfKinds(_, _)
ElseIfKinds(conditions, i) ==
    IF i > Len(conditions) THEN <<>>
    ELSE <<Word("PERHAPS"), conditions[i], Word("NEWLINE")>> \o SpillDigit(i)
         \o ElseIfKinds(conditions, i + 1)

\* kalo c NEWLINE spill 0 NEWLINE (perhaps c_i NEWLINE spill i NEWLINE)*
\* (kalogak NEWLINE spill 9 NEWLINE)? udahan NEWLINE spill 7 NEWLINE
IfKinds(condition, elseIfs, hasElse) ==
    <<Word("KALO"), condition, Word("NEWLINE")>> \o SpillDigit(0)
    \o ElseIfKinds(elseIfs, 1)
    \o (IF hasElse THEN <<Word("KALOGAK"), Word("NEWLINE")>> \o SpillDigit(9) ELSE <<>>)
    \o <<Word("UDAHAN"), Word("NEWLINE")>> \o SpillDigit(7)

IfShapes ==
    {<<c, e, h>> : c \in Conditions,
                   e \in UNION {[1..n -> Conditions] : n \in 0..MaxElseIfs},
                   h \in BOOLEAN}

IfPrograms == {MakeTokens(IfKinds(s[1], s[2], s[3])) : s \in IfShapes}

\* literally x itu 5 NEWLINE kalo ril NEWLINE literally x itu 1 NEWLINE
\* spill x NEWLINE udahan NEWLINE spill x NEWLINE
ShadowProgram ==
    MakeTokens(<<Word("LITERALLY"), Word("IDENTIFIER"), Word("ITU"), NumberKind("5"), Word("NEWLINE"),
                 Word("KALO"), Word("TRUE"), Word("NEWLINE"),
                 Word("LITERALLY"), Word("IDENTIFIER"), Word("ITU"), NumberKind("1"), Word("NEWLINE"),
                 Word("SPILL"), Word("IDENTIFIER"), Word("NEWLINE"),
                 Word("UDAHAN"), Word("NEWLINE"),
                 Word("SPILL"), Word("IDENTIFIER"), Word("NEWLINE")>>)

\* chained: literally x NEWLINE literally y NEWLINE spill x itu y itu 3
\* NEWLINE spill x NEWLINE spill y NEWLINE
\* nested: literally x itu 5 NEWLINE kalo ril NEWLINE spill x itu 1 NEWLINE
\* udahan NEWLINE spill x NEWLINE
AssignPrograms ==
    LET x == Word("IDENTIFIER")
        y == Kind("IDENTIFIER", <<"y">>, Nil)
    IN [chained |->
            MakeTokens(<<Word("LITERALLY"), x, Word("NEWLINE"),
                         Word("LITERALLY"), y, Word("NEWLINE"),
                         Word("SPILL"), x, Word("ITU"), y, Word("ITU"),
                         NumberKind("3"), Word("NEWLINE"),
                         Word("SPILL"), x, Word("NEWLINE"),
                         Word("SPILL"), y, Word("NEWLINE")>>),
        nested |->
            MakeTokens(<<Word("LITERALLY"), x, Word("ITU"), NumberKind("5"),
                         Word("NEWLINE"),
                         Word("KALO"), Word("TRUE"), Word("NEWLINE"),
                         Word("SPILL"), x, Word("ITU"), NumberKind("1"),
                         Word("NEWLINE"),
                         Word("UDAHAN"), Word("NEWLINE"),
                         Word("SPILL"), x, Word("NEWLINE")>>)]

InitIf ==
    /\ pc = "parse"
    /\ \E toks \in IfPrograms
                    \cup {ShadowProgram, AssignPrograms.chained, AssignPrograms.nested} :
          parser = [tokens |-> toks, current |-> 0, errorReporter |-> NewReporter,
                    statements |-> <<>>]
    /\ source = <<>>
    /\ scanner = IdleScanner
    /\ chain = <<>>
    /\ call = IdleCall
    /\ input = <<>>
    /\ jaksel = IdleJaksel

NextIf ==
    \/ ParseSkipNewline
    \/ ParseDeclaration
    \/ ParseReturn
    \/ Interpret
    \/ ExecuteStatement
    \/ IntepretReturn

SpecIf == InitIf /\ [][NextIf]_vars

(***************************************************************************)
(* SpecRun: the interactive mode.  Jaksel.run is called on one Jaksel      *)
(* instance, once per input line, with the programs below.                 *)
(***************************************************************************)
\* the input lines the programs are made of
Lines ==
    {
      \* literally x itu 1
      <<"l", "i", "t", "e", "r", "a", "l", "l", "y", " ", "x", " ", "i", "t",
        "u", " ", "1", "\n">>,
      \* spill x
      <<"s", "p", "i", "l", "l", " ", "x", "\n">>,
      \* x itu 2
      <<"x", " ", "i", "t", "u", " ", "2", "\n">>,
      \* spill -"a"
      <<"s", "p", "i", "l", "l", " ", "-", "\"", "a", "\"", "\n">>,
      \* spill (
      <<"s", "p", "i", "l", "l", " ", "(", "\n">> }

RECURSIVE Concat(_, _)
Concat(lines, i) == IF i > Len(lines) THEN <<>> ELSE lines[i] \o Concat(lines, i + 1)

Programs == {Concat(lines, 1) : lines \in UNION {[1..n -> Lines] : n \in 0..MaxStmts}}

InitRun ==
    /\ pc = "idle"
    /\ jaksel = IdleJaksel
    /\ source = <<>>
    /\ scanner = IdleScanner
    /\ parser = IdleParser
    /\ chain = <<>>
    /\ call = IdleCall
    /\ input = <<>>

\* the console is read from the start of a call of run on
ClearConsole(rep) == [rep EXCEPT !.errors = <<>>]

\* runPrompt: a line is read; run: scanTokens and new Parser
RunCall ==
    /\ pc = "idle"
    /\ jaksel.runs < MaxRuns
    /\ \E text \in Programs :
          /\ source' = text
          /\ scanner' = ScanTokens(text, ClearConsole(jaksel.errorReporter))
    /\ parser' = [tokens |-> scanner'.tokens, current |-> 0,
                  errorReporter |-> scanner'.errorReporter, statements |-> <<>>]
    /\ jaksel' = [jaksel EXCEPT !.errorReporter = scanner'.errorReporter,
                                !.ip = 0, !.output = <<>>, !.executed = <<>>]
    /\ pc' = "parse"
    /\ UNCHANGED <<input, chain, call>>

\* run returns, and its scanner, parser and interpreter are no more;
\* runPrompt: hadError = false
RunReturn ==
    /\ pc = "return"
    /\ pc' = "idle"
    /\ jaksel' = [jaksel EXCEPT !.errorReporter.hadError = FALSE,
                                !.runs = @ + 1,
                                !.ip = 0,
                                !.lastEnvironment = chain]
    /\ source' = <<>>
    /\ scanner' = IdleScanner
    /\ parser' = IdleParser
    /\ chain' = <<>>
    /\ UNCHANGED <<input, call>>

NextRun ==
    \/ RunCall
    \/ ParseSkipNewline
    \/ ParseDeclaration
    \/ ParseReturn
    \/ Interpret
    \/ ExecuteStatement
    \/ IntepretReturn
    \/ RunReturn

SpecRun == InitRun /\ [][NextRun]_vars

(***************************************************************************)
(* SpecEval: Jaksel.run on one source that spills an expression.  `input`  *)
(* is what the source was written from.                                    *)
(***************************************************************************)
\* arithmetic expressions of at most k operators over the literals 2 and 3:
\* <<"num", digit, value>>, <<"neg", e>> and <<operator, left, right>>
RECURSIVE Arithmetic(_)
Arithmetic(k) ==
    IF k = 0 THEN {<<"num", "2", 2>>, <<"num", "3", 3>>}
    ELSE Arithmetic(k - 1)
         \cup {<<"neg", e>> : e \in Arithmetic(k - 1)}
         \cup UNION {{<<o, l, r>> : o \in {"+", "-", "*", "/"},
                                   l \in Arithmetic(i), r \in Arithmetic(k - 1 - i)} :
                        i \in 0..(k - 1)}

\* how tightly the operator of an expression binds
Binding(e) ==
    IF e[1] \in {"+", "-"} THEN 1 ELSE IF e[1] \in {"*", "/"} THEN 2 ELSE 3

\* the expression written out, in parentheses where it binds less tightly
\* than its place requires; the right operand of a binary operator must bind
\* more tightly than the operator
RECURSIVE Written(_, _)
Written(e, place) ==
    LET text == IF e[1] = "num" THEN <<e[2]>>
                ELSE IF e[1] = "neg" THEN <<"-">> \o Written(e[2], 3)
                ELSE Written(e[2], Binding(e)) \o <<e[1]>>
                     \o Written(e[3], Binding(e) + 1)
    IN IF Binding(e) < place THEN <<"(">> \o text \o <<")">> ELSE text

\* the value of an expression as a fraction <<numerator, denominator>>
RECURSIVE Fraction(_)
Fraction(e) ==
    IF e[1] = "num" THEN <<e[3], 1>>
    ELSE IF e[1] = "neg" THEN <<-Fraction(e[2])[1], Fraction(e[2])[2]>>
    ELSE LET a == Fraction(e[2])
             b == Fraction(e[3])
         IN CASE e[1] = "+" -> <<a[1] * b[2] + b[1] * a[2], a[2] * b[2]>>
              [] e[1] = "-" -> <<a[1] * b[2] - b[1] * a[2], a[2] * b[2]>>
              [] e[1] = "*" -> <<a[1] * b[1], a[2] * b[2]>>
              [] e[1] = "/" -> <<a[1] * b[2] * Sign(b[1]), a[2] * Abs(b[1])>>

\* no division of the expression is by zero
RECURSIVE Defined(_)
Defined(e) ==
    IF e[1] = "num" THEN TRUE
    ELSE IF e[1] = "neg" THEN Defined(e[2])
    ELSE Defined(e[2]) /\ Defined(e[3]) /\ (e[1] = "/" => Fraction(e[3])[1] # 0)

Spill == <<"s", "p", "i", "l", "l", " ">>

\* operands of every kind of value, as written and as evaluated; (0/0) is NaN
Operands ==
    { [text |-> <<"2">>, value |-> IntVal(2)],
      [text |-> <<"3">>, value |-> IntVal(3)],
      [text |-> <<"\"", "a", "\"">>, value |-> Str(<<"a">>)],
      [text |-> <<"\"", "b", "\"">>, value |-> Str(<<"b">>)],
      [text |-> <<"r", "i", "l">>, value |-> Bool(TRUE)],
      [text |-> <<"i", "m", "p", "o", "s", "s", "i", "b", "l", "e">>,
       value |-> Bool(FALSE)],
      [text |-> <<"h", "a", "m", "p", "a">>, value |-> Nil],
      [text |-> <<"(", "0", "/", "0", ")">>,
       value |-> [k |-> "number", n |-> 0, d |-> 0, s |-> <<>>]] }

BinaryOperators ==
    { [text |-> <<"+">>, type |-> "PLUS"], [text |-> <<"-">>, type |-> "MINUS"],
      [text |-> <<"*">>, type |-> "STAR"], [text |-> <<"/">>, type |-> "SLASH"],
      [text |-> <<">">>, type |-> "GREATER"],
      [text |-> <<">", "=">>, type |-> "GREATER_EQUAL"],
      [text |-> <<"<">>, type |-> "LESS"],
      [text |-> <<"<", "=">>, type |-> "LESS_EQUAL"],
      [text |-> <<"=", "=">>, type |-> "EQUAL_EQUAL"],
      [text |-> <<"!", "=">>, type |-> "BANG_EQUAL"] }

UnaryOperators ==
    { [text |-> <<"-">>, type |-> "MINUS"], [text |-> <<"!">>, type |-> "BANG"] }

\* further operands of the unary operators: 0 and the empty string
UnaryOperands ==
    Operands \cup { [text |-> <<"0">>, value |-> IntVal(0)],
                    [text |-> <<"\"", "\"">>, value |-> Str(<<>>)] }

\* one operator applied to operands: <<"binary", operator, left, right>> and
\* <<"unary", operator, right>>; <<"effects", operator, left, right>> is the
\* operator applied to two assignments of the operands, to x and to y, and
\* <<"order", operator, left>> to an assignment of left to x and one of x
\* to y
Operations ==
    {<<form, o, l, r>> : form \in {"binary", "effects"}, o \in BinaryOperators,
                        l \in Operands, r \in Operands}
    \cup {<<"unary", o, r>> : o \in UnaryOperators, r \in UnaryOperands}
    \cup {<<"order", o, l>> : o \in BinaryOperators, l \in Operands}

\* the initializer of a declaration without one
NoInitializer == [text |-> <<>>, value |-> Nil]

Literally == <<"l", "i", "t", "e", "r", "a", "l", "l", "y", " ">>

Itu == <<" ", "i", "t", "u", " ">>

\* an assignment to a name no statement has declared
Undeclared == <<"y", " ", "i", "t", "u", " ", "5", "\n">>

\* what a source is written from, and the source; <<"var", initializer>> is
\* a declaration of x and a spill of it; <<"source", text>> is a source given
\* as it is: the assignments `y itu 5` (alone, after an empty
\* line, and after `literally y`), a source with a character of no token and
\* one with a parse error
EvalInputs ==
    {e \in Arithmetic(MaxOps) : Defined(e)}
    \cup Operations
    \cup {<<"var", o>> : o \in Operands \cup {NoInitializer}}
    \cup {<<"source", text>> :
            text \in {Undeclared, <<"\n">> \o Undeclared,
                      Literally \o <<"y", "\n">> \o Undeclared,
                      <<"@">> \o Spill \o <<"1", "\n">>,
                      Spill \o <<"(", "\n">>}}

SourceOf(in) ==
    CASE in[1] = "binary" ->
            Spill \o in[3].text \o <<" ">> \o in[2].text \o <<" ">> \o in[4].text
            \o <<"\n">>
      [] in[1] = "unary" -> Spill \o in[2].text \o in[3].text \o <<"\n">>
      [] in[1] = "effects" ->
            Literally \o <<"x", "\n">> \o Literally \o <<"y", "\n">>
            \o Spill \o <<"(", "x">> \o Itu \o in[3].text \o <<")", " ">>
            \o in[2].text \o <<" ", "(", "y">> \o Itu \o in[4].text
            \o <<")", "\n">>
      [] in[1] = "order" ->
            Literally \o <<"x", "\n">> \o Literally \o <<"y", "\n">>
            \o Spill \o <<"(", "x">> \o Itu \o in[3].text \o <<")", " ">>
            \o in[2].text \o <<" ", "(", "y">> \o Itu \o <<"x", ")", "\n">>
      [] in[1] = "var" ->
            Literally \o <<"x">>
            \o (IF in[2] = NoInitializer THEN <<>> ELSE Itu \o in[2].text)
            \o <<"\n">> \o Spill \o <<"x", "\n">>
      [] in[1] = "source" -> in[2]
      [] OTHER -> Spill \o Written(in, 1) \o <<"\n">>

InitEval ==
    /\ pc = "run"
    /\ input \in EvalInputs
    /\ source = SourceOf(input)
    /\ jaksel = IdleJaksel
    /\ scanner = IdleScanner
    /\ parser = IdleParser
    /\ chain = <<>>
    /\ call = IdleCall

\* run: scanTokens and new Parser
Run ==
    /\ pc = "run"
    /\ scanner' = ScanTokens(source, jaksel.errorReporter)
    /\ parser' = [tokens |-> scanner'.tokens, current |-> 0,
                  errorReporter |-> scanner'.errorReporter, statements |-> <<>>]
    /\ jaksel' = [jaksel EXCEPT !.errorReporter = scanner'.errorReporter]
    /\ pc' = "parse"
    /\ UNCHANGED <<input, source, chain, call>>

NextEval ==
    \/ Run
    \/ ParseSkipNewline
    \/ ParseDeclaration
    \/ ParseReturn
    \/ Interpret
    \/ ExecuteStatement
    \/ IntepretReturn

SpecEval == InitEval /\ [][NextEval]_vars

(***************************************************************************)
(* Claims.                                                                 *)
(***************************************************************************)
\* C1: for every token sequence ending in one EOF token, parse terminates and
\* returns: every pass of its loop (skipping a NEWLINE, or a declaration with
\* its synchronization) consumes at least one token.
C1_EveryParsePassConsumes ==
    [][pc' = "parse" => parser'.current > parser.current]_vars

EofPositions(tokens) == {i \in 1..Len(tokens) : tokens[i].type = "EOF"}

\* what is left for scanTokens to do
ScanMeasure == (Len(source) - scanner.current) + (IF pc = "scan" THEN 1 ELSE 0)

\* C2: for every source, scanTokens terminates (the cursor stays within the
\* source, what is left to do is a natural number that every step lowers and
\* that is zero exactly when scanTokens has returned; the two steps' guards,
\* isAtEnd and its negation, leave no state of the loop without a step) and
\* the tokens returned hold exactly one EOF token, the last one, with or
\* without reported errors.
C2_ScanEndsInOneEOF ==
    /\ [](scanner.current <= Len(source))
    /\ [](ScanMeasure >= 0 /\ (ScanMeasure = 0 <=> pc = "scanned"))
    /\ [][ScanMeasure' < ScanMeasure]_vars
    /\ [](IF pc = "scanned"
          THEN EofPositions(scanner.tokens) = {Len(scanner.tokens)}
          ELSE EofPositions(scanner.tokens) = {})

\* a scan that reported an error and returned tokens ending in EOF
C2_Witness ==
    /\ pc = "scanned"
    /\ scanner.errorReporter.hadError
    /\ Len(scanner.tokens) >= 2
    /\ scanner.tokens[Len(scanner.tokens)].type = "EOF"

\* the last statement executed in this run raised an error
Failed == jaksel.executed # <<>> /\ ~jaksel.executed[Len(jaksel.executed)].ok

\* C3: intepret executes the statements in list order, none skipped (the
\* i-th execution is of the i-th statement, and a run without an error
\* executes them all); only the last statement executed can have raised, and
\* once one has, the output, the environment and the statements executed stay
\* as they are; the reporter has recorded a runtime error exactly when a
\* statement has raised.
C3_InOrderAbortOnError ==
    /\ [](\A i \in 1..Len(jaksel.executed) :
             /\ jaksel.executed[i].index = i
             /\ (i < Len(jaksel.executed) => jaksel.executed[i].ok))
    /\ [](jaksel.errorReporter.hadRuntimeError <=> Failed)
    /\ []((pc = "return" /\ ~Failed) =>
             Len(jaksel.executed) = Len(parser.statements))
    /\ [][Failed =>
             /\ chain' = chain
             /\ jaksel'.output = jaksel.output
             /\ jaksel'.executed = jaksel.executed]_vars

\* C4: when a later call of run on the same Jaksel starts to execute its
\* statements, every variable bound at the top level when the call before
\* it returned is bound to the same value.
C4_EnvironmentPersists ==
    (pc = "interpret" /\ jaksel.ip = 1 /\ jaksel.runs > 0) =>
        \A name \in DOMAIN jaksel.lastEnvironment[1] :
            /\ Has(chain[1], name)
            /\ chain[1][name] = jaksel.lastEnvironment[1][name]

\* the scopes of the chain of Environment i (i and the ones enclosing it)
\* that bind name
Binders(ch, i, name) == {j \in 1..i : name \in DOMAIN ch[j]}

\* the innermost of them
Nearest(ch, i, name) ==
    CHOOSE j \in Binders(ch, i, name) : \A m \in Binders(ch, i, name) : m <= j

\* the names each scope of a chain binds
BoundNames(ch) == [j \in 1..Len(ch) |-> DOMAIN ch[j]]

\* all the bindings of a chain, as (scope, name, value) triples
AllBindings(ch) ==
    UNION {{<<j, n, ch[j][n]>> : n \in DOMAIN ch[j]} : j \in 1..Len(ch)}

\* C5: assign on an Environment of whose chain some scope binds the name
\* completes without an error and changes exactly the binding of the nearest
\* such scope.
C5_AssignSetsNearestAndReturns ==
    (call.op = "assign" /\ Binders(call.before, call.env, call.name) # {}) =>
        /\ call.ok
        /\ AllBindings(chain) =
              (AllBindings(call.before)
                  \ {<<Nearest(call.before, call.env, call.name), call.name, v>> :
                        v \in Values})
              \cup {<<Nearest(call.before, call.env, call.name), call.name, call.value>>}

\* C6: assign never creates a binding: it fails when no scope of the chain
\* binds the name, the names bound in each scope are the same after any
\* call, and a failed call leaves the values unchanged too.
C6_AssignNeverCreatesFailureChangesNothing ==
    call.op = "assign" =>
        /\ (Binders(call.before, call.env, call.name) = {} => ~call.ok)
        /\ BoundNames(chain) = BoundNames(call.before)
        /\ (~call.ok => chain = call.before)

\* C7: get returns the value of the nearest scope binding the name, fails
\* exactly when no scope of the chain binds it, and changes no binding.
C7_GetReadsNearest ==
    call.op = "get" =>
        /\ chain = call.before
        /\ (call.ok <=> Binders(chain, call.env, call.name) # {})
        /\ (call.ok =>
              call.result = chain[Nearest(chain, call.env, call.name)][call.name])

\* a get from an inner scope of a name bound there and, to another value, in
\* an enclosing scope; and a failed get
C7_Witness ==
    /\ call.op = "get"
    /\ call.env >= 2
    /\ \E j \in 1..(call.env - 1) :
          /\ Has(chain[j], call.name)
          /\ Has(chain[call.env], call.name)
          /\ chain[j][call.name] # chain[call.env][call.name]

\* C8: define binds the name to the value in the Environment it is called
\* on, never fails, and changes no other binding of that scope nor any
\* binding of another scope.
C8_DefineBindsCurrentScopeOnly ==
    call.op = "define" =>
        /\ call.ok
        /\ Len(chain) = Len(call.before)
        /\ \A j \in 1..Len(chain) : j # call.env => chain[j] = call.before[j]
        /\ DOMAIN chain[call.env] = DOMAIN call.before[call.env] \cup {call.name}
        /\ chain[call.env][call.name] = call.value
        /\ \A n \in DOMAIN call.before[call.env] :
              n # call.name => chain[call.env][n] = call.before[call.env][n]

\* a define of a name already bound, to another value, in the current scope
\* and in an enclosing one
C8_Witness ==
    /\ call.op = "define"
    /\ call.env >= 2
    /\ Has(call.before[call.env], call.name)
    /\ call.before[call.env][call.name] # call.value
    /\ \E j \in 1..(call.env - 1) : Has(call.before[j], call.name)

\* C9: in the program
\*     literally x itu 5 / kalo ril / literally x itu 1 / spill x / udahan /
\*     spill x
\* the x declared in the block shadows the outer one: 1 is printed inside
\* the block, 5 after it, and x is bound to 5 at the top level in the end.
C9_BlockDeclarationShadows ==
    (Over /\ parser.tokens = ShadowProgram) =>
        /\ jaksel.output = <<IntVal(1), IntVal(5)>>
        /\ Len(chain) = 1
        /\ EnvGet(chain, 1, <<"x">>) = [ok |-> TRUE, value |-> IntVal(5)]

\* the conditions that select their branch
Selecting == {Word("TRUE"), NumberKind("0")}

\* what the branch to run prints in the program of a shape
BranchOutput(condition, elseIfs, hasElse) ==
    LET hits == {i \in 1..Len(elseIfs) : elseIfs[i] \in Selecting}
    IN IF condition \in Selecting THEN <<IntVal(0)>>
       ELSE IF hits # {}
       THEN <<IntVal(CHOOSE i \in hits : \A j \in hits : i <= j)>>
       ELSE IF hasElse THEN <<IntVal(9)>>
       ELSE <<>>

\* the program of the shape has been parsed and run
Ran(s) == Over /\ parser.tokens = MakeTokens(IfKinds(s[1], s[2], s[3]))

C11_OneErrorOneNullThenResume ==
    \A m \in MalformedLines, ws \in Followers :
        parser.tokens = RecoveryProgram(m, ws) =>
            /\ Len(parser.errorReporter.errors) <= 1
            /\ Cardinality({i \in 1..Len(parser.statements) :
                               parser.statements[i] = Null}) <= 1
            /\ pc = "parsed" =>
                  /\ Len(parser.errorReporter.errors) = 1
                  /\ parser.statements =
                        <<Null>> \o [i \in 1..Len(ws) |-> ws[i].node]

\* C12: the run of `spill e`, e an arithmetic expression written with the
\* parentheses standard precedence and left-associativity require, prints
\* the value of e and reports no error.
C12_ArithmeticValue ==
    (Over /\ input[1] \in {"num", "neg", "+", "-", "*", "/"}) =>
        /\ pc = "return"
        /\ ~jaksel.errorReporter.hadError
        /\ ~jaksel.errorReporter.hadRuntimeError
        /\ Len(jaksel.output) = 1
        /\ jaksel.output[1].k = "number"
        /\ jaksel.output[1].d > 0
        /\ jaksel.output[1].n * Fraction(input)[2]
              = Fraction(input)[1] * jaksel.output[1].d

\* 3 - 2 - 2 has printed -1, and 2 + 3 * 2 has printed 8
C12_Witness ==
    /\ pc = "return"
    /\ \/ /\ input = <<"-", <<"-", <<"num", "3", 3>>, <<"num", "2", 2>>>>,
                              <<"num", "2", 2>>>>
          /\ jaksel.output = <<IntVal(-1)>>
       \/ /\ input = <<"+", <<"num", "2", 2>>,
                              <<"*", <<"num", "3", 3>>, <<"num", "2", 2>>>>>>
          /\ jaksel.output = <<IntVal(8)>>

\* the run spilled left operator right, the operator's type being one of types
Applied(types) == Over /\ input[1] = "binary" /\ input[2].type \in types

\* C13: a + b prints the sum of two numbers and the concatenation of two
\* strings; for operands of any other kinds the evaluation raises a runtime
\* error and nothing is printed.
C13_PlusNumbersOrStrings ==
    Applied({"PLUS"}) =>
        LET l == input[3].value
            r == input[4].value
        IN IF l.k = "number" /\ r.k = "number"
           THEN /\ pc = "return"
                /\ Len(jaksel.output) = 1
                /\ IF IsNaN(l) \/ IsNaN(r) THEN IsNaN(jaksel.output[1])
                   ELSE jaksel.output = <<IntVal(l.n + r.n)>>
           ELSE IF l.k = "string" /\ r.k = "string"
           THEN pc = "return" /\ jaksel.output = <<Str(l.s \o r.s)>>
           ELSE /\ pc = "thrown"
                /\ jaksel.caught.kind = "RuntimeError"
                /\ jaksel.output = <<>>

\* the operator token of the source of a binary operation
OperatorToken ==
    [type |-> input[2].type, lexeme |-> input[2].text, literal |-> Nil, line |-> 1,
     column |-> Len(Spill) + Len(input[3].text) + 2]

\* C14: for - / * > >= < <= the evaluation raises 'Operands must be a
\* number.' with the operator token when an operand is not a number, and
\* nothing is printed; with two numbers the IEEE result is printed (NaN from
\* an arithmetic operator with a NaN operand, false from a comparison with
\* one).  Unary - raises 'Operand must be a number.' with its token when the
\* operand is not a number, and prints the negation of a number.
C14_NumberOperands ==
    /\ Applied({"MINUS", "SLASH", "STAR", "GREATER", "GREATER_EQUAL", "LESS",
                "LESS_EQUAL"}) =>
          LET l == input[3].value
              r == input[4].value
              o == input[2].type
              nan == IsNaN(l) \/ IsNaN(r)
          IN IF l.k # "number" \/ r.k # "number"
             THEN /\ pc = "thrown"
                  /\ jaksel.caught
                       = RuntimeError(OperatorToken, "Operands must be a number.")
                  /\ jaksel.output = <<>>
             ELSE /\ pc = "return"
                  /\ Len(jaksel.output) = 1
                  /\ LET v == jaksel.output[1]
                     IN CASE o = "MINUS" ->
                               IF nan THEN IsNaN(v) ELSE v = IntVal(l.n - r.n)
                          [] o = "STAR" ->
                               IF nan THEN IsNaN(v) ELSE v = IntVal(l.n * r.n)
                          [] o = "SLASH" ->
                               IF nan THEN IsNaN(v)
                               ELSE v.k = "number" /\ v.d > 0 /\ v.n * r.n = l.n * v.d
                          [] o = "GREATER" -> v = Bool(~nan /\ l.n > r.n)
                          [] o = "GREATER_EQUAL" -> v = Bool(~nan /\ l.n >= r.n)
                          [] o = "LESS" -> v = Bool(~nan /\ l.n < r.n)
                          [] o = "LESS_EQUAL" -> v = Bool(~nan /\ l.n <= r.n)
    /\ (Over /\ input[1] = "unary" /\ input[2].type = "MINUS") =>
          IF input[3].value.k # "number"
          THEN /\ pc = "thrown"
               /\ jaksel.caught
                    = RuntimeError([type |-> "MINUS", lexeme |-> <<"-">>,
                                    literal |-> Nil, line |-> 1,
                                    column |-> Len(Spill) + 1],
                                   "Operand must be a number.")
               /\ jaksel.output = <<>>
          ELSE /\ pc = "return"
               /\ Len(jaksel.output) = 1
               /\ IF IsNaN(input[3].value) THEN IsNaN(jaksel.output[1])
                  ELSE jaksel.output = <<IntVal(-input[3].value.n)>>

\* 2 - "a" has raised, 3 / 2 has printed 1.5 and -ril has raised
C14_Witness ==
    \/ /\ pc = "thrown"
       /\ input[1] = "binary"
       /\ input[2].type = "MINUS"
       /\ input[3].value = IntVal(2)
       /\ input[4].value = Str(<<"a">>)
       /\ jaksel.caught.message = "Operands must be a number."
    \/ /\ pc = "return"
       /\ input[1] = "binary"
       /\ input[2].type = "SLASH"
       /\ input[3].value = IntVal(3)
       /\ input[4].value = IntVal(2)
       /\ jaksel.output = <<Num(3, 2)>>
    \/ /\ pc = "thrown"
       /\ input[1] = "unary"
       /\ input[2].type = "MINUS"
       /\ input[3].value = Bool(TRUE)
       /\ jaksel.caught.message = "Operand must be a number."

\* C17: a == b prints true exactly when a and b are of the same kind and
\* have the same value (IEEE: NaN has the value of no number, itself
\* included), a != b prints the negation, and neither raises.
C17_EqualityWithoutCoercion ==
    Applied({"EQUAL_EQUAL", "BANG_EQUAL"}) =>
        LET l == input[3].value
            r == input[4].value
            same == /\ l.k = r.k
                    /\ CASE l.k = "number" -> ~IsNaN(l) /\ ~IsNaN(r) /\ l.n = r.n
                          [] l.k = "string" -> l.s = r.s
                          [] l.k = "boolean" -> l.n = r.n
                          [] l.k = "nil" -> TRUE
        IN /\ pc = "return"
           /\ jaksel.output = <<Bool(same <=> input[2].type = "EQUAL_EQUAL")>>

\* 2 == 2 has printed true, impossible == hampa false and 2 != "a" true
C17_Witness ==
    /\ pc = "return"
    /\ input[1] = "binary"
    /\ \/ /\ input[2].type = "EQUAL_EQUAL"
          /\ input[3].value = IntVal(2)
          /\ input[4].value = IntVal(2)
          /\ jaksel.output = <<Bool(TRUE)>>
       \/ /\ input[2].type = "EQUAL_EQUAL"
          /\ input[3].value = Bool(FALSE)
          /\ input[4].value = Nil
          /\ jaksel.output = <<Bool(FALSE)>>
       \/ /\ input[2].type = "BANG_EQUAL"
          /\ input[3].value = IntVal(2)
          /\ input[4].value = Str(<<"a">>)
          /\ jaksel.output = <<Bool(TRUE)>>

\* C15: the run of `y itu 5`, y not declared, raises the undefined-variable
\* error for y, the reporter records it (hadRuntimeError), y is not bound,
\* and run returns.
C15_UndeclaredAssignment ==
    (Over /\ input = <<"source", Undeclared>>) =>
        /\ jaksel.caught.kind = "RuntimeError"
        /\ jaksel.caught.token.lexeme = <<"y">>
        /\ jaksel.caught.message = "Undefined variable '{name}'."
        /\ chain = <<EmptyMap>>
        /\ jaksel.errorReporter.hadRuntimeError
        /\ pc = "return"

\* the one error reporter of a run, which the scanner, the parser and the
\* interpreter hold in turn
Reporter ==
    IF pc \in {"parse", "parsed"} THEN parser.errorReporter ELSE jaksel.errorReporter

\* C16: a step in which lexical or parse errors are reported sets hadError
\* and leaves hadRuntimeError as it is; a step in which a statement raises a
\* runtime error sets hadRuntimeError and leaves hadError as it is.
C16_EveryErrorSetsItsFlag ==
    [][/\ Len(Reporter'.errors) > Len(Reporter.errors) =>
             /\ Reporter'.hadError
             /\ Reporter'.hadRuntimeError = Reporter.hadRuntimeError
       /\ jaksel'.caught # jaksel.caught =>
             /\ Reporter'.hadRuntimeError
             /\ Reporter'.hadError = Reporter.hadError]_vars

\* the types of the tokens
Types(tokens) == [i \in 1..Len(tokens) |-> tokens[i].type]

\* the first index from i on of a newline of src, Len(src) + 1 without one
LineEnd(src, i) ==
    LET ends == {j \in i..Len(src) : src[j] = "\n"} \cup {Len(src) + 1}
    IN CHOOSE j \in ends : \A k \in ends : j <= k

\* the token types of a source of operators, comments and white space, read
\* from index i: the longest operator at each place, nothing for white space
\* and for a comment up to its newline, NEWLINE for a newline
RECURSIVE OperatorTypes(_, _)
OperatorTypes(src, i) ==
    IF i > Len(src) THEN <<>>
    ELSE LET c == src[i]
             eq == i < Len(src) /\ src[i + 1] = "="
             next == IF eq THEN i + 2 ELSE i + 1
         IN CASE c = "!" -> <<IF eq THEN "BANG_EQUAL" ELSE "BANG">>
                            \o OperatorTypes(src, next)
              [] c = "=" -> <<IF eq THEN "EQUAL_EQUAL" ELSE "EQUAL">>
                            \o OperatorTypes(src, next)
              [] c = "<" -> <<IF eq THEN "LESS_EQUAL" ELSE "LESS">>
                            \o OperatorTypes(src, next)
              [] c = ">" -> <<IF eq THEN "GREATER_EQUAL" ELSE "GREATER">>
                            \o OperatorTypes(src, next)
              [] c = "#" -> OperatorTypes(src, LineEnd(src, i))
              [] c = "\n" -> <<"NEWLINE">> \o OperatorTypes(src, i + 1)
              [] OTHER -> OperatorTypes(src, i + 1)

\* the number of newlines of src from index i on that are not inside a
\* string, mode telling where index i is: "code", "string" or "comment"
RECURSIVE NewlinesOutside(_, _, _)
NewlinesOutside(src, i, mode) ==
    IF i > Len(src) THEN 0
    ELSE LET c == src[i]
         IN CASE mode = "string" ->
                    NewlinesOutside(src, i + 1, IF c = "\"" THEN "code" ELSE "string")
              [] mode = "comment" /\ c # "\n" -> NewlinesOutside(src, i + 1, "comment")
              [] OTHER ->
                    IF c = "\n" THEN 1 + NewlinesOutside(src, i + 1, "code")
                    ELSE NewlinesOutside(src, i + 1,
                                         IF c = "\"" THEN "string"
                                         ELSE IF c = "#" THEN "comment" ELSE "code")

\* C18: the tokens of a source of operators, comments and white space are
\* those of the longest operator at each place, none for space, carriage
\* return, tab and comments, and a NEWLINE for each newline; and in every
\* source the NEWLINE tokens are as many as the newlines outside strings.
C18_LongestMatchAndLayout ==
    pc = "scanned" =>
        /\ (\A i \in 1..Len(source) : source[i] \in OperatorAlphabet) =>
               Types(scanner.tokens) = OperatorTypes(source, 1) \o <<"EOF">>
        /\ Cardinality({i \in 1..Len(scanner.tokens) :
                            scanner.tokens[i].type = "NEWLINE"})
              = NewlinesOutside(source, 1, "code")

\* `<=` before a comment and a newline, and a newline inside a string
C18_Witness ==
    /\ pc = "scanned"
    /\ \/ /\ source = <<"<", "=", "#">>
          /\ Types(scanner.tokens) = <<"LESS_EQUAL", "EOF">>
       \/ /\ source = <<"#", "=", "\n">>
          /\ Types(scanner.tokens) = <<"NEWLINE", "EOF">>
       \/ /\ source = <<"\"", "\n", "\"">>
          /\ Types(scanner.tokens) = <<"STRING", "EOF">>

\* the 1-based column on its line of the character at 0-based offset i
ColumnOf(src, i) ==
    LET before == {j \in 1..i : src[j] = "\n"}
    IN i + 1 - (IF before = {} THEN 0 ELSE CHOOSE j \in before : \A k \in before : k <= j)

\* C19: the column of a token added by a pass of the scan is the column on
\* its line of the first character of its lexeme, the column of EOF is one
\* past the last character of the last line, and no column is below 1.
C19_TokenColumns ==
    [][/\ Len(scanner'.tokens) > Len(scanner.tokens) =>
             LET token == scanner'.tokens[Len(scanner'.tokens)]
             IN /\ token.column >= 1
                /\ token.column = ColumnOf(source, IF token.type = "EOF"
                                                   THEN Len(source)
                                                   ELSE scanner'.start)]_vars

\* the tokens of a source of digits and dots, read from index i: DOT for a
\* dot that no number takes, and for a digit the NUMBER of the longest run
\* of digits with, if a dot and a digit follow it, the dot and the longest
\* run of digits after it.  A token is <<type, lexeme>>
RECURSIVE NumberTokens(_, _)
NumberTokens(src, i) ==
    IF i > Len(src) THEN <<>>
    ELSE IF src[i] = "." THEN <<<<"DOT", <<".">>>>>> \o NumberTokens(src, i + 1)
    ELSE LET run(from) ==
                 CHOOSE j \in from..(Len(src) + 1) :
                     /\ \A k \in from..(j - 1) : src[k] # "."
                     /\ j = Len(src) + 1 \/ src[j] = "."
             whole == run(i)
             end == IF whole < Len(src) /\ src[whole + 1] # "."
                    THEN run(whole + 1) ELSE whole
         IN <<<<"NUMBER", SubSeq(src, i, end - 1)>>>> \o NumberTokens(src, end)

\* the digits of a lexeme as one integer, and the number of digits after
\* the dot
RECURSIVE Mantissa(_)
Mantissa(text) ==
    IF text = <<>> THEN 0
    ELSE LET c == text[Len(text)]
             rest == Mantissa(SubSeq(text, 1, Len(text) - 1))
         IN IF c = "." THEN rest ELSE 10 * rest + (IF c = "1" THEN 1 ELSE 2)

Decimals(text) ==
    IF \E i \in 1..Len(text) : text[i] = "."
    THEN Len(text) - (CHOOSE i \in 1..Len(text) : text[i] = ".")
    ELSE 0

\* C20: the tokens of a source of digits and dots are one NUMBER for each
\* longest digits or digits.digits, its literal the decimal value of the
\* lexeme, and a DOT for every other dot.
C20_NumberLiterals ==
    (pc = "scanned" /\ \A i \in 1..Len(source) : source[i] \in NumberAlphabet) =>
        /\ [i \in 1..(Len(scanner.tokens) - 1) |->
               <<scanner.tokens[i].type, scanner.tokens[i].lexeme>>]
              = NumberTokens(source, 1)
        /\ \A i \in 1..Len(scanner.tokens) :
               LET token == scanner.tokens[i]
               IN token.type = "NUMBER" =>
                     /\ token.literal.k = "number"
                     /\ token.literal.d > 0
                     /\ token.literal.n * Pow10(Decimals(token.lexeme))
                           = Mantissa(token.lexeme) * token.literal.d
        /\ ~scanner.errorReporter.hadError

\* 1.2.1 is NUMBER DOT NUMBER, 1. is NUMBER DOT and .1 is DOT NUMBER
C20_Witness ==
    /\ pc = "scanned"
    /\ \/ /\ source = <<"1", ".", "2", ".", "1">>
          /\ Types(scanner.tokens) = <<"NUMBER", "DOT", "NUMBER", "EOF">>
          /\ scanner.tokens[1].literal = Num(12, 10)
       \/ /\ source = <<"1", ".">>
          /\ Types(scanner.tokens) = <<"NUMBER", "DOT", "EOF">>
       \/ /\ source = <<".", "1">>
          /\ Types(scanner.tokens) = <<"DOT", "NUMBER", "EOF">>

\* the indices after i of the quotes of src
Closing(src, i) == {j \in (i + 1)..Len(src) : src[j] = "\""}

\* C21: a pass of the scan that starts at a quote adds, when a later quote
\* closes the string at the first such quote, one STRING token whose lexeme
\* runs from quote to quote and whose literal is the text between them, and
\* reports nothing; when no quote closes it, it adds no token, reports one
\* 'Unterminated string.' and consumes the rest of the source.  The scan
\* ends with EOF either way.
C21_StringLiterals ==
    /\ [][(pc = "scan" /\ CharAt(source, scanner.current) = "\"") =>
             LET i == scanner.current + 1
                 errors == scanner.errorReporter.errors
                 errors2 == scanner'.errorReporter.errors
             IN IF Closing(source, i) # {}
                THEN LET j == CHOOSE c \in Closing(source, i) :
                                  \A d \in Closing(source, i) : c <= d
                         token == scanner'.tokens[Len(scanner'.tokens)]
                     IN /\ Len(scanner'.tokens) = Len(scanner.tokens) + 1
                        /\ SubSeq(scanner'.tokens, 1, Len(scanner.tokens))
                              = scanner.tokens
                        /\ token.type = "STRING"
                        /\ token.lexeme = SubSeq(source, i, j)
                        /\ token.literal = Str(SubSeq(source, i + 1, j - 1))
                        /\ scanner'.current = j
                        /\ errors2 = errors
                ELSE /\ scanner'.tokens = scanner.tokens
                     /\ Len(errors2) = Len(errors) + 1
                     /\ SubSeq(errors2, 1, Len(errors)) = errors
                     /\ errors2[Len(errors2)].message = "Unterminated string."
                     /\ scanner'.current = Len(source)]_vars
    /\ [](pc = "scanned" => scanner.tokens[Len(scanner.tokens)].type = "EOF")

\* the string "a" scanned, and a string without its closing quote
C21_Witness ==
    /\ pc = "scanned"
    /\ \/ /\ source = <<"\"", "a", "\"">>
          /\ Types(scanner.tokens) = <<"STRING", "EOF">>
          /\ scanner.tokens[1].literal = Str(<<"a">>)
       \/ /\ source = <<"\"", "a", "\n">>
          /\ Types(scanner.tokens) = <<"EOF">>
          /\ Len(scanner.errorReporter.errors) = 1

\* the line of the character at 0-based offset i
LineOf(src, i) == 1 + Cardinality({j \in 1..i : src[j] = "\n"})

\* C22: a pass of the scan that starts at a character of no token reports
\* one 'Unexpected character.' at the line and column of that character,
\* adds no token and leaves the scanner where a space would have left it.
C22_UnexpectedCharacter ==
    [][(pc = "scan" /\ CharAt(source, scanner.current) = "@") =>
         LET errors == scanner.errorReporter.errors
             errors2 == scanner'.errorReporter.errors
         IN /\ scanner'.tokens = scanner.tokens
            /\ scanner'.current = scanner.current + 1
            /\ scanner'.line = scanner.line
            /\ scanner'.column = scanner.column + 1
            /\ Len(errors2) = Len(errors) + 1
            /\ SubSeq(errors2, 1, Len(errors)) = errors
            /\ errors2[Len(errors2)].message = "Unexpected character."
            /\ errors2[Len(errors2)].line = LineOf(source, scanner.current)
            /\ errors2[Len(errors2)].hasColumn
            /\ errors2[Len(errors2)].column = ColumnOf(source, scanner.current)]_vars

\* the maximal runs of characters other than spaces of src from index i on
RECURSIVE Runs(_, _)
Runs(src, i) ==
    IF i > Len(src) THEN <<>>
    ELSE IF src[i] = " " THEN Runs(src, i + 1)
    ELSE LET ends == {j \in i..Len(src) : j = Len(src) \/ src[j + 1] = " "}
             end == CHOOSE j \in ends : \A k \in ends : j <= k
         IN <<SubSeq(src, i, end)>> \o Runs(src, end + 1)

\* C23: in a source of runs of letters, digits and underscores that start
\* with a letter or an underscore, separated by spaces, every run is one
\* token: of the reserved type when the whole run is an entry of the keyword
\* table, IDENTIFIER otherwise.
C23_IdentifiersAndKeywords ==
    LET runs == Runs(source, 1)
    IN (/\ pc = "scanned"
        /\ \A i \in 1..Len(source) : IsAlphaNumeric(source[i]) \/ source[i] = " "
        /\ \A r \in 1..Len(runs) : ~IsDigit(runs[r][1])) =>
           /\ Len(scanner.tokens) = Len(runs) + 1
           /\ \A r \in 1..Len(runs) :
                  /\ scanner.tokens[r].lexeme = runs[r]
                  /\ \A k \in 1..Len(Keywords) :
                         scanner.tokens[r].type = Keywords[k][2]
                             <=> runs[r] = Keywords[k][1]
                  /\ scanner.tokens[r].type = "IDENTIFIER"
                        <=> \A k \in 1..Len(Keywords) : runs[r] # Keywords[k][1]
           /\ ~scanner.errorReporter.hadError

\* `spill spillx` is SPILL IDENTIFIER, and `itu1 itu` IDENTIFIER ITU
C23_Witness ==
    /\ pc = "scanned"
    /\ \/ /\ source = <<"s", "p", "i", "l", "l", " ", "s", "p", "i", "l", "l", "x">>
          /\ Types(scanner.tokens) = <<"SPILL", "IDENTIFIER", "EOF">>
       \/ /\ source = <<"i", "t", "u", "1", " ", "i", "t", "u">>
          /\ Types(scanner.tokens) = <<"IDENTIFIER", "ITU", "EOF">>

\* C24: after `literally x itu e` and `spill x` have run, x is bound at the
\* top level to the value of e, nil when the declaration has no initializer,
\* and that value has been printed.
C24_DeclarationBinds ==
    (Over /\ input[1] = "var") =>
        /\ pc = "return"
        /\ chain = <<MapSet(EmptyMap, <<"x">>, input[2].value)>>
        /\ jaksel.output = <<input[2].value>>

\* `literally x itu 2` has bound x to 2, and `literally x` to nil
C24_Witness ==
    /\ pc = "return"
    /\ input[1] = "var"
    /\ \/ input[2].value = IntVal(2) /\ jaksel.output = <<IntVal(2)>>
       \/ input[2] = NoInitializer /\ jaksel.output = <<Nil>>

\* C25: an assignment stores the value of its right side in the nearest
\* binding of the name and has that value: `spill x itu y itu 3` prints 3
\* and leaves x and y bound to 3, and `spill x itu 1` in a block, x declared
\* outside it, prints 1 and leaves the outer x bound to 1.
C25_AssignmentStoresAndYields ==
    /\ (Over /\ parser.tokens = AssignPrograms.chained) =>
          /\ pc = "return"
          /\ jaksel.output = <<IntVal(3), IntVal(3), IntVal(3)>>
    /\ (Over /\ parser.tokens = AssignPrograms.nested) =>
          /\ pc = "return"
          /\ jaksel.output = <<IntVal(1), IntVal(1)>>
          /\ chain = <<MapSet(EmptyMap, <<"x">>, IntVal(1))>>

\* C26: `spill !e` prints true when e is nil or false and false for every
\* other value, 0 and the empty string included, and never raises.
C26_BangNegatesTruthiness ==
    (Over /\ input[1] = "unary" /\ input[2].type = "BANG") =>
        /\ pc = "return"
        /\ jaksel.output = <<Bool(input[3].value \in {Nil, Bool(FALSE)})>>

\* !0 and !"" have printed false, !hampa has printed true
C26_Witness ==
    /\ pc = "return"
    /\ input[1] = "unary"
    /\ input[2].type = "BANG"
    /\ \/ input[3].value = IntVal(0) /\ jaksel.output = <<Bool(FALSE)>>
       \/ input[3].value = Str(<<>>) /\ jaksel.output = <<Bool(FALSE)>>
       \/ input[3].value = Nil /\ jaksel.output = <<Bool(TRUE)>>

\* C27: the parse of a line `target itu value`, the target no variable and
\* the value well-formed, reports one error, 'Invalid assignment target.' at
\* the `itu` token, consumes the whole line, and returns one statement, the
\* expression statement of the target.
C27_InvalidAssignmentTarget ==
    \A i \in 1..Len(InvalidTargets), v \in AssignedSides :
        (pc = "parsed" /\ parser.tokens = InvalidAssignment(i, v)) =>
            LET toks == parser.tokens
                itu == toks[Len(InvalidTargets[i]) + 1]
            IN /\ parser.errorReporter.errors
                     = <<[line |-> itu.line, hasColumn |-> TRUE,
                          column |-> itu.column, where |-> itu.lexeme,
                          message |-> "Invalid assignment target."]>>
               /\ parser.statements
                     = <<ExpressionStmt(
                           CASE i = 1 -> Literal(IntVal(1))
                             [] i = 2 -> Grouping(Variable(toks[2]))
                             [] i = 3 -> Binary(Literal(IntVal(1)), toks[2],
                                                Variable(toks[3])))>>

\* `1 itu x itu 2` parsed with one error and one statement
C27_Witness ==
    /\ pc = "parsed"
    /\ parser.tokens
         = InvalidAssignment(1, <<Word("IDENTIFIER"), Word("ITU"), NumberKind("2")>>)
    /\ Len(parser.errorReporter.errors) = 1
    /\ Len(parser.statements) = 1
    /\ parser.statements[1] # Null

\* C28: once the scan and the parse of a source have reported an error, the
\* run executes no statement: no step of the interpreter loop executes an
\* entry of the statement list, a null entry least of all, and the output
\* and the bindings stay as they were.
C28_NoExecutionAfterError ==
    [][(pc = "interpret" /\ jaksel.errorReporter.hadError) =>
          /\ jaksel'.executed = jaksel.executed
          /\ jaksel'.output = jaksel.output
          /\ chain' = chain]_vars

\* the lexemes are substrings of the source from offset `from` on, one after
\* the other and without overlap
RECURSIVE Placed(_, _)
Placed(lexemes, from) ==
    \/ lexemes = <<>>
    \/ \E b \in from..(Len(source) - Len(Head(lexemes))) :
          /\ SubSeq(source, b + 1, b + Len(Head(lexemes))) = Head(lexemes)
          /\ Placed(Tail(lexemes), b + Len(Head(lexemes)))

\* C29: every pass of the scan loop starts where the last one ended,
\* consumes at least one character and stays within the source
\* (0 <= start < current <= length); it adds at most one token, whose lexeme
\* is the source from start to current; and the lexemes of the tokens are
\* substrings of the source, in source order and without overlap.
C29_ScanTokenAdvancesWithinSource ==
    /\ [][(pc = "scan" /\ ~IsAtEnd(source, scanner)) =>
            /\ scanner'.start = scanner.current
            /\ 0 <= scanner'.start
            /\ scanner'.start < scanner'.current
            /\ scanner'.current <= Len(source)
            /\ \/ scanner'.tokens = scanner.tokens
               \/ /\ Len(scanner'.tokens) = Len(scanner.tokens) + 1
                  /\ SubSeq(scanner'.tokens, 1, Len(scanner.tokens)) = scanner.tokens
                  /\ scanner'.tokens[Len(scanner'.tokens)].lexeme
                       = SubSeq(source, scanner'.start + 1, scanner'.current)]_vars
    /\ [](Placed([i \in 1..Len(scanner.tokens) |-> scanner.tokens[i].lexeme], 0))

\* a scan that is over with three tokens or more before EOF, one of them of
\* two characters or more
C29_Witness ==
    /\ pc = "scanned"
    /\ Len(scanner.tokens) >= 4
    /\ \E i \in 2..Len(scanner.tokens) : Len(scanner.tokens[i].lexeme) >= 2

\* C30: a binary expression evaluates its left operand, then its right one,
\* and only then applies the operator: when `(x itu l) op (y itu r)` has
\* run, x is bound to l and y to r whether the operator has failed or not,
\* and when `(x itu l) op (y itu x)` has run, y is bound to l as well.
C30_OperandsLeftToRight ==
    /\ (Over /\ input[1] = "effects") =>
          chain = <<MapSet(MapSet(EmptyMap, <<"x">>, input[3].value),
                           <<"y">>, input[4].value)>>
    /\ (Over /\ input[1] = "order") =>
          chain = <<MapSet(MapSet(EmptyMap, <<"x">>, input[3].value),
                           <<"y">>, input[3].value)>>

\* `(x itu "a") - (y itu 2)` has failed on its operands, x bound to "a" and
\* y to 2
C30_Witness ==
    /\ pc = "thrown"
    /\ input = <<"effects", [text |-> <<"-">>, type |-> "MINUS"],
                 [text |-> <<"\"", "a", "\"">>, value |-> Str(<<"a">>)],
                 [text |-> <<"2">>, value |-> IntVal(2)]>>
    /\ jaksel.caught.message = "Operands must be a number."
    /\ chain = <<MapSet(MapSet(EmptyMap, <<"x">>, Str(<<"a">>)), <<"y">>, IntVal(2))>>

====
